---- MODULE Spec2Model ----
(***************************************************************************)
(* A model of the CUDA circle renderer and of the scan / find_peaks        *)
(* primitives of this repository.                                          *)
(*                                                                         *)
(*   scan/       exclusive_scan, cudaScan, find_peaks  (src/unnamed/part_000)*)
(*   render/     CudaRenderer::render and its kernels  (cudaRenderer.cu)   *)
(*                                                                         *)
(* Every kernel launch is one action: the host code synchronises after     *)
(* each launch (or launches on the same stream), so a launch is atomic     *)
(* with respect to the next one.  Arrays are functions over 0..len-1.      *)
(* Device memory that the code reads without having written it is chosen   *)
(* nondeterministically from a small set of values.                        *)
(***************************************************************************)
EXTENDS Integers, Sequences, FiniteSets, TLC

VARIABLES
    \* ---- cudaScan / exclusive_scan ----
    scanPc,        \* "idle" | "upsweep" | "downsweep" | "done"
    inarray,       \* the host input of cudaScan, [0..n-1 -> Int]
    device_data,   \* the device buffer of nextPow2(n) elements
    twod,          \* the loop variable of the running sweep
    scanOob,       \* element indices touched outside 0..nextPow2(n)-1
    scanInput,     \* device_data as exclusive_scan received it
    levelLog,      \* one record per kernel launch of exclusive_scan, in launch order
    \* ---- find_peaks ----
    peakPc,        \* "idle" | "mark" | "clear" | "scan" | "list" | "copy" | "done"
    device_input,  \* [0..N-1 -> Int], N = nextPow2(length); length..N-1 uninitialised
    peakLength,    \* the logical length
    peaks,         \* [0..N-1 -> Int]
    peakPrefixes,  \* [0..N-1 -> Int]
    device_output, \* [0..N-1 -> Int]
    listWrites,    \* the writes <<slot, value>> make_list_kernel performed
    peakOob,       \* <<kernel, access, i>>: accesses of the two kernels outside
                   \* the buffers, and scatters through prefixes[i], i >= length
    ans,           \* the value find_peaks returns
    \* ---- CudaRenderer ----
    rPc,           \* "idle" | "start" | "animate" | "mark" | "scan" | "list" | "render" | "end"
    frame,         \* number of frames begun
    sceneName,     \* the scene tag
    numberOfCircles,
    position,      \* [0..N-1 -> <<x, y>>], in units of 1/CoordDen
    radius,        \* [0..N-1 -> Int], in units of 1/CoordDen
    color,         \* [0..N-1 -> <<r, g, b>>], in units of 1/ColorScale
    hitCircles,    \* [0..numBlocks*N-1 -> Int]
    prefixes,      \* [0..numBlocks*N-1 -> Int]
    hitCirclesList,\* [0..numBlocks*N-1 -> Int]
    imageData,     \* [0..W*H-1 -> <<r, g, b, a>>], in units of 1/ColorScale
    imageBefore,   \* imageData as the last render launch found it
    \* ---- CudaRenderer::setup and the first frame after it ----
    setupPc,       \* "idle" | "malloc" | "run" | "exited" | "done"
    setupStep,     \* index of the next cudaMalloc, then of the next stage
    failedAllocs,  \* the buffers whose cudaMalloc returned an error
    deviceError,   \* TRUE once a kernel has faulted on the device
    diagnostics,   \* the lines cudaAssert printed to stderr
    unallocatedUse,\* <<stage, buffer>>: the stage ran with the buffer unallocated
    \* ---- the launches of exclusive_scan on lengths up to the int range ----
    launchPc,      \* "idle" | "start" | "upsweep" | "downsweep" | "done"
    launchN,       \* the length handed to exclusive_scan
    launchLength,  \* length = nextPow2(length)
    launchTwod,    \* the loop variable of the running sweep
    strayWorkers   \* <<twod1, index, i>>: threads of the last launch with
                   \* index*twod1 >= length that passed the guard i < length

scanVars == <<scanPc, inarray, device_data, twod, scanOob, scanInput, levelLog>>
peakVars == <<peakPc, device_input, peakLength, peaks, peakPrefixes, device_output,
             listWrites, peakOob, ans>>
renderVars == <<rPc, frame, sceneName, numberOfCircles, position, radius, color,
               hitCircles, prefixes, hitCirclesList, imageData, imageBefore>>
setupVars == <<setupPc, setupStep, failedAllocs, deviceError, diagnostics, unallocatedUse>>
launchVars == <<launchPc, launchN, launchLength, launchTwod, strayWorkers>>
vars == <<scanVars, peakVars, renderVars, setupVars, launchVars>>

(***************************************************************************)
(* Bounds of the model.                                                    *)
(***************************************************************************)
MaxLen == 5          \* longest logical array given to cudaScan

\* the elements of the arrays given to cudaScan
ScanValues == {-1, 0, 1}
\* values an uninitialised int of device memory may hold
UninitInts == {0, 7}

(***************************************************************************)
(* 32-bit int arithmetic (two's complement, wrapping).                     *)
(***************************************************************************)
INT_MAX == 2147483647
INT_MIN == -INT_MAX - 1

\* a + b in a 32-bit register
AddInt32(a, b) ==
    IF a > 0 /\ b > 0 /\ a > INT_MAX - b THEN (a + INT_MIN) + (b + INT_MIN)
    ELSE IF a < 0 /\ b < 0 /\ a < INT_MIN - b THEN (a - INT_MIN) + (b - INT_MIN)
    ELSE a + b

\* a * b in a 32-bit register, a >= 0
RECURSIVE MulInt32(_, _)
MulInt32(a, b) ==
    IF a = 0 \/ b = 0 THEN 0
    ELSE IF b > 0 /\ a <= INT_MAX \div b THEN a * b
    ELSE LET h == MulInt32(a \div 2, b)
             d == AddInt32(h, h)
         IN  IF a % 2 = 1 THEN AddInt32(d, b) ELSE d

RECURSIVE BitOrNat(_, _)
BitOrNat(a, b) ==
    IF a = 0 THEN b
    ELSE IF b = 0 THEN a
    ELSE (IF (a % 2 = 1) \/ (b % 2 = 1) THEN 1 ELSE 0) + 2 * BitOrNat(a \div 2, b \div 2)

\* the bits of a that are not bits of b, a >= 0 and b >= 0
RECURSIVE BitAndNotNat(_, _)
BitAndNotNat(a, b) ==
    IF a = 0 THEN 0
    ELSE (IF (a % 2 = 1) /\ (b % 2 = 0) THEN 1 ELSE 0) + 2 * BitAndNotNat(a \div 2, b \div 2)

RECURSIVE BitAndNat(_, _)
BitAndNat(a, b) ==
    IF a = 0 \/ b = 0 THEN 0
    ELSE (IF (a % 2 = 1) /\ (b % 2 = 1) THEN 1 ELSE 0) + 2 * BitAndNat(a \div 2, b \div 2)

\* ~a on ints
BitNot(a) == -a - 1

\* a | b on ints: a negative operand is handled through ~(~a & ~b)
BitOr(a, b) ==
    IF a >= 0 /\ b >= 0 THEN BitOrNat(a, b)
    ELSE IF a < 0 /\ b < 0 THEN BitNot(BitAndNat(BitNot(a), BitNot(b)))
    ELSE IF a < 0 THEN BitNot(BitAndNotNat(BitNot(a), b))
    ELSE BitNot(BitAndNotNat(BitNot(b), a))

RECURSIVE Pow2(_)
Pow2(k) == IF k = 0 THEN 1 ELSE 2 * Pow2(k - 1)

\* the position of the highest set bit of x >= 1
RECURSIVE HighBit(_)
HighBit(x) == IF x <= 1 THEN 0 ELSE 1 + HighBit(x \div 2)

\* the largest k for which 2^k is an int
MaxLog2 == HighBit(INT_MAX)

\* a >> k on ints (arithmetic shift)
Shr(a, k) == a \div Pow2(k)

\* a rounding without the initial n--
nextPow2_no_decrement(n) ==
    LET n1 == BitOr(n, Shr(n, 1))
        n2 == BitOr(n1, Shr(n1, 2))
        n3 == BitOr(n2, Shr(n2, 4))
        n4 == BitOr(n3, Shr(n3, 8))
        n5 == BitOr(n4, Shr(n4, 16))
    IN  AddInt32(n5, 1)

nextPow2(n) ==
    LET n0 == AddInt32(n, -1)
        n1 == BitOr(n0, Shr(n0, 1))
        n2 == BitOr(n1, Shr(n1, 2))
        n3 == BitOr(n2, Shr(n2, 4))
        n4 == BitOr(n3, Shr(n3, 8))
        n5 == BitOr(n4, Shr(n4, 16))
    IN  AddInt32(n5, 1)

(***************************************************************************)
(* exclusive_scan: one kernel launch per level.                            *)
(***************************************************************************)
threadsPerBlock == 512

\* number of thread blocks of the launch for the level with stride twod1
ScanBlocks(length, twod1) ==
    LET N == length \div twod1 IN (N + threadsPerBlock - 1) \div threadsPerBlock

\* the global thread indices of a launch of `blocks` blocks
LaunchThreads(blocks) == 0 .. (blocks * threadsPerBlock - 1)

\* a launch whose threads are twod apart instead of twod1
ActiveI_stride_twod(length, twod1) ==
    { i \in { MulInt32(index, twod1 \div 2) : index \in LaunchThreads(ScanBlocks(length, twod1)) } :
        i < length }

\* a launch in which every thread of the last block acts as well
ActiveI_every_thread(length, twod1) ==
    { MulInt32(index, twod1) : index \in LaunchThreads(ScanBlocks(length, twod1)) }

\* the values i = index*twod1 of the threads that pass the guard i < length.
\* When the product of the last thread of the launch fits an int the products
\* ascend with index, and the threads that pass are those up to (length-1)/twod1.
ActiveI(length, twod1) ==
    LET top == ScanBlocks(length, twod1) * threadsPerBlock - 1
        lim == (length - 1) \div twod1
    IN  IF top <= INT_MAX \div twod1
        THEN { index * twod1 : index \in 0 .. (IF top < lim THEN top ELSE lim) }
        ELSE { i \in { MulInt32(index, twod1) :
                          index \in LaunchThreads(ScanBlocks(length, twod1)) } : i < length }

\* the elements the worker at i reads or writes in a level with stride 2*tw:
\* device_data[i+twod-1] and device_data[i+twod1-1], in both kernels
WorkerTouches(i, tw) == {i + tw - 1, i + 2 * tw - 1}

\* the stores <<i, element>> of an up-sweep level: device_data[i+twod1-1] += ...
UpsweepStores(length, tw) ==
    { <<i, i + 2 * tw - 1>> : i \in ActiveI(length, 2 * tw) }

\* the stores <<i, element>> of a down-sweep level:
\* device_data[i+twod-1] = ... and device_data[i+twod1-1] += t
DownsweepStores(length, tw) ==
    { <<i, i + tw - 1>> : i \in ActiveI(length, 2 * tw) }
        \cup { <<i, i + 2 * tw - 1>> : i \in ActiveI(length, 2 * tw) }

\* the body of upsweep_kernel run by the thread at i alone
UpsweepWorker(data, i, tw) ==
    [data EXCEPT ![i + 2 * tw - 1] = data[i + 2 * tw - 1] + data[i + tw - 1]]

\* the body of downsweep_kernel run by the thread at i alone
DownsweepWorker(data, i, tw) ==
    LET t  == data[i + tw - 1]
        d1 == [data EXCEPT ![i + tw - 1] = data[i + 2 * tw - 1]]
    IN  [d1 EXCEPT ![i + 2 * tw - 1] = d1[i + 2 * tw - 1] + t]

\* the buffers a level can leave when its threads in `act` run one after the
\* other in any order
RECURSIVE LevelOrders(_, _, _, _)
LevelOrders(sweep, data, act, tw) ==
    IF act = {} THEN {data}
    ELSE UNION { LevelOrders(sweep,
                             IF sweep = "up" THEN UpsweepWorker(data, i, tw)
                             ELSE DownsweepWorker(data, i, tw),
                             act \ {i}, tw) : i \in act }

\* the record of one launch
LevelRecord(sweep, length, tw, stores) ==
    [sweep |-> sweep, twod1 |-> 2 * tw, workers |-> Cardinality(ActiveI(length, 2 * tw)),
     stores |-> Cardinality(stores)]

\* the elements a level touches that are not elements of the buffer
LevelOob(data, length, tw) ==
    { k \in UNION { {i + tw - 1, i + 2 * tw - 1} : i \in ActiveI(length, 2 * tw) } :
        k \notin DOMAIN data }

\* an up-sweep that stores the left partial sum instead of adding it
upsweep_kernel_overwrite(data, length, tw) ==
    LET twod1 == 2 * tw
        act   == ActiveI(length, twod1)
    IN  [k \in DOMAIN data |->
            IF \E i \in act : k = i + twod1 - 1
            THEN data[k - tw]
            ELSE data[k]]

\* device_data[i+twod1-1] += device_data[i+twod-1] for every active i
upsweep_kernel(data, length, tw) ==
    LET twod1 == 2 * tw
        act   == ActiveI(length, twod1)
    IN  [k \in DOMAIN data |->
            IF \E i \in act : k = i + twod1 - 1
            THEN data[k] + data[k - tw]
            ELSE data[k]]

\* a down-sweep that adds t into the left element and moves the right one nowhere
\* (the variant the source comment "change twod1 below to twod" describes)
downsweep_kernel_reverse(data, length, tw) ==
    LET twod1 == 2 * tw
        act   == ActiveI(length, twod1)
    IN  [k \in DOMAIN data |->
            IF \E i \in act : k = i + tw - 1
            THEN data[k + tw] + data[k]
            ELSE data[k]]

\* t = data[i+twod-1]; data[i+twod-1] = data[i+twod1-1]; data[i+twod1-1] += t
downsweep_kernel(data, length, tw) ==
    LET twod1 == 2 * tw
        act   == ActiveI(length, twod1)
    IN  [k \in DOMAIN data |->
            IF \E i \in act : k = i + twod1 - 1
            THEN data[k] + data[k - tw]
            ELSE IF \E i \in act : k = i + tw - 1
            THEN data[k + tw]
            ELSE data[k]]

\* a memset of the first element instead of the root
MemsetRoot_first_element(data, length) ==
    IF 0 \in DOMAIN data THEN [data EXCEPT ![0] = 0] ELSE data

\* an exclusive_scan that leaves the total of the up-sweep in the root
MemsetRoot_skipped(data, length) == data

\* cudaMemset(device_data + length - 1, 0, sizeof(int))
MemsetRoot(data, length) ==
    IF (length - 1) \in DOMAIN data THEN [data EXCEPT ![length - 1] = 0] ELSE data

\* cudaScan: the buffer after the host-to-device copy of n elements
ScanInit ==
    /\ scanPc = "upsweep"
    /\ twod = 1
    /\ scanOob = {}
    /\ levelLog = <<>>
    /\ \E n \in 0 .. MaxLen :
         /\ inarray \in [0 .. (n - 1) -> ScanValues]
         /\ \E pad \in [n .. (nextPow2(n) - 1) -> UninitInts] :
              device_data = [k \in 0 .. (nextPow2(n) - 1) |->
                                IF k < n THEN inarray[k] ELSE pad[k]]
    /\ scanInput = device_data

\* the length cudaScan passes to exclusive_scan, and its rounded value
ScanLen == Cardinality(DOMAIN inarray)
ScanL == nextPow2(ScanLen)

\* for (twod = 1; twod < length; twod *= 2) upsweep_kernel<<<...>>>
UpsweepLaunch ==
    /\ scanPc = "upsweep"
    /\ twod < ScanL
    /\ device_data' = upsweep_kernel(device_data, ScanL, twod)
    /\ scanOob' = scanOob \cup LevelOob(device_data, ScanL, twod)
    /\ twod' = 2 * twod
    /\ levelLog' = Append(levelLog, LevelRecord("up", ScanL, twod, UpsweepStores(ScanL, twod)))
    /\ UNCHANGED <<scanPc, inarray, scanInput>>

\* loop exit, cudaMemset of the root, entry of the down-sweep loop
RootMemset ==
    /\ scanPc = "upsweep"
    /\ ~(twod < ScanL)
    /\ device_data' = MemsetRoot(device_data, ScanL)
    /\ scanOob' = scanOob \cup ({ScanL - 1} \ DOMAIN device_data)
    /\ twod' = ScanL \div 2
    /\ scanPc' = IF ScanL \div 2 >= 1 THEN "downsweep" ELSE "done"
    /\ UNCHANGED <<inarray, scanInput, levelLog>>

\* for (twod = length/2; twod >= 1; twod /= 2) downsweep_kernel<<<...>>>
DownsweepLaunch ==
    /\ scanPc = "downsweep"
    /\ twod >= 1
    /\ device_data' = downsweep_kernel(device_data, ScanL, twod)
    /\ scanOob' = scanOob \cup LevelOob(device_data, ScanL, twod)
    /\ twod' = twod \div 2
    /\ scanPc' = IF twod \div 2 >= 1 THEN "downsweep" ELSE "done"
    /\ levelLog' = Append(levelLog, LevelRecord("down", ScanL, twod, DownsweepStores(ScanL, twod)))
    /\ UNCHANGED <<inarray, scanInput>>

\* exclusive_scan as a whole: the launches of the two loops applied in order
RECURSIVE UpsweepLoop(_, _, _)
UpsweepLoop(data, length, tw) ==
    IF tw < length THEN UpsweepLoop(upsweep_kernel(data, length, tw), length, 2 * tw)
    ELSE data

RECURSIVE DownsweepLoop(_, _, _)
DownsweepLoop(data, length, tw) ==
    IF tw >= 1 THEN DownsweepLoop(downsweep_kernel(data, length, tw), length, tw \div 2)
    ELSE data

exclusive_scan(data, n) ==
    LET length == nextPow2(n)
    IN  DownsweepLoop(MemsetRoot(UpsweepLoop(data, length, 1), length), length, length \div 2)

\* cudaScan(inarray, end, resultarray): the n = end - inarray elements copied back
\* from a scanned buffer whose elements n..nextPow2(n)-1 hold `fill`
cudaScan(in, n, fill) ==
    LET rounded_length == nextPow2(n)
        buf == [k \in 0 .. (rounded_length - 1) |-> IF k < n THEN in[k] ELSE fill]
        res == exclusive_scan(buf, n)
    IN  [k \in 0 .. (n - 1) |-> res[k]]

(***************************************************************************)
(* find_peaks                                                              *)
(***************************************************************************)
MaxPeakLen == 5      \* longest array given to find_peaks

\* the elements of the arrays given to find_peaks
PeakValues == {0, 1}

\* const int N = nextPow2(length), the size of every buffer of find_peaks
PeakN == nextPow2(peakLength)
\* const int blocks = (N + threadsPerBlock - 1) / threadsPerBlock
PeakBlocks == (PeakN + threadsPerBlock - 1) \div threadsPerBlock

\* data[i], with lo and hi standing for the reads of data[-1] and data[N]
DataAt(data, i, lo, hi) ==
    IF i < 0 THEN lo ELSE IF i \in DOMAIN data THEN data[i] ELSE hi

\* peaks[i] = data[i-1] < data[i] && data[i] > data[i+1] ? 1 : 0, for every
\* launched thread i whose peaks[i] is an element of the buffer
find_peak_kernel(pk, data, lo, hi) ==
    [i \in DOMAIN pk |->
        IF i \in LaunchThreads(PeakBlocks)
        THEN IF DataAt(data, i - 1, lo, hi) < DataAt(data, i, lo, hi)
                /\ DataAt(data, i, lo, hi) > DataAt(data, i + 1, lo, hi)
             THEN 1 ELSE 0
        ELSE pk[i]]

\* the elements thread i of find_peak_kernel reads and writes
FindPeakAccesses(i) ==
    { <<"find_peak_kernel", "read data", i - 1>>,
      <<"find_peak_kernel", "read data", i>>,
      <<"find_peak_kernel", "read data", i + 1>>,
      <<"find_peak_kernel", "write peaks", i>> }

\* those of the launched threads that are outside the buffers of N elements
FindPeakOob ==
    { a \in UNION { FindPeakAccesses(i) : i \in LaunchThreads(PeakBlocks) } :
        a[3] \notin 0 .. (PeakN - 1) }

\* only the second memset
ClearEnds_last_only(pk, length) ==
    [i \in DOMAIN pk |-> IF i = length - 1 THEN 0 ELSE pk[i]]

\* cudaMemset(peaks, 0, sizeof(int)); cudaMemset(peaks + length - 1, 0, sizeof(int))
ClearEnds(pk, length) ==
    [i \in DOMAIN pk |-> IF i = 0 \/ i = length - 1 THEN 0 ELSE pk[i]]

\* the writes result[prefixes[i]] = i of the threads i with peaks[i] != 0;
\* `stray` is the set of writes <<idx, i>> of threads outside the buffers
ListWrites(pk, pre, stray) ==
    { <<pre[i], i>> : i \in { j \in DOMAIN pk \cap LaunchThreads(PeakBlocks) : pk[j] # 0 } }
        \cup stray

\* the threads that write slot k
Writers(writes, k) == { w[2] : w \in { x \in writes : x[1] = k } }

\* the arrays make_list_kernel can leave: a slot nobody writes keeps its value,
\* a slot with several writers holds the value of any one of them
RECURSIVE ListOutcomes(_, _, _)
ListOutcomes(result, writes, k) ==
    IF k < 0 THEN { <<>> }
    ELSE LET w  == Writers(writes, k)
             vs == IF w = {} THEN {result[k]} ELSE w
         IN  { f @@ (k :> v) : f \in ListOutcomes(result, writes, k - 1), v \in vs }

PeakIdle ==
    /\ peakPc = "idle"
    /\ device_input = <<>>
    /\ peakLength = 0
    /\ peaks = <<>>
    /\ peakPrefixes = <<>>
    /\ device_output = <<>>
    /\ listWrites = {}
    /\ peakOob = {}
    /\ ans = 0

ScanIdle ==
    /\ scanPc = "idle"
    /\ inarray = <<>>
    /\ device_data = <<>>
    /\ twod = 0
    /\ scanOob = {}
    /\ scanInput = <<>>
    /\ levelLog = <<>>

\* cudaFindPeaks up to the call of find_peaks, and the two cudaMalloc of find_peaks;
\* the fresh allocations hold the same uninitialised pattern
PeakInit ==
    /\ peakPc = "mark"
    /\ listWrites = {}
    /\ peakOob = {}
    /\ ans = 0
    /\ \E len \in 3 .. MaxPeakLen :
         LET N == nextPow2(len) IN
         /\ peakLength = len
         /\ \E in \in [0 .. (len - 1) -> PeakValues], pad \in [len .. (N - 1) -> UninitInts] :
              device_input = [k \in 0 .. (N - 1) |-> IF k < len THEN in[k] ELSE pad[k]]
         /\ \E u \in UninitInts :
              /\ peaks = [k \in 0 .. (N - 1) |-> u]
              /\ peakPrefixes = [k \in 0 .. (N - 1) |-> u]
              /\ device_output = [k \in 0 .. (N - 1) |-> u]

\* find_peak_kernel<<<blocks, threadsPerBlock>>>(peaks, device_input, length)
FindPeakLaunch ==
    /\ peakPc = "mark"
    /\ \E oob \in UninitInts :
         peaks' = find_peak_kernel(peaks, device_input, oob, oob)
    /\ peakOob' = FindPeakOob
    /\ peakPc' = "clear"
    /\ UNCHANGED <<device_input, peakLength, peakPrefixes, device_output, listWrites, ans>>

\* the two cudaMemset
PeakMemset ==
    /\ peakPc = "clear"
    /\ peaks' = ClearEnds(peaks, peakLength)
    /\ peakPc' = "scan"
    /\ UNCHANGED <<device_input, peakLength, peakPrefixes, device_output, listWrites, peakOob, ans>>

\* cudaScan(peaks, peaks + length, prefixes)
PeakScan ==
    /\ peakPc = "scan"
    /\ \E fill \in UninitInts :
         LET res == cudaScan(peaks, peakLength, fill)
         IN  peakPrefixes' = [k \in DOMAIN peakPrefixes |->
                                 IF k < peakLength THEN res[k] ELSE peakPrefixes[k]]
    /\ peakPc' = "list"
    /\ UNCHANGED <<device_input, peakLength, peaks, device_output, listWrites, peakOob, ans>>

\* the launched threads whose index is outside the buffers of N elements: the
\* first and the last of them stand for all
OutsideThreads ==
    IF PeakN <= PeakBlocks * threadsPerBlock - 1
    THEN {PeakN, PeakBlocks * threadsPerBlock - 1} ELSE {}

\* such a thread reads peaks[i] and prefixes[i] beyond the allocations: it gets
\* any values, and writes result[prefixes[i]] = i when peaks[i] != 0 (a write
\* beyond the end of result is not recorded)
StrayWrites ==
    { {} } \cup
    { { <<idx, i>> } : idx \in UninitInts \cap DOMAIN device_output, i \in OutsideThreads }

\* make_list_kernel: every launched thread reads peaks[i], and a thread with
\* peaks[i] != 0 reads prefixes[i] and scatters through it; recorded are the
\* reads beyond the buffers and the scatters of the threads i >= length, whose
\* prefixes[i] cudaScan did not write
MakeListOob(pk, stray) ==
    { <<"make_list_kernel", "read peaks", i>> :
        i \in LaunchThreads(PeakBlocks) \ DOMAIN pk }
    \cup { <<"make_list_kernel", "scatter", i>> :
             i \in { j \in DOMAIN pk \cap LaunchThreads(PeakBlocks) :
                        j >= peakLength /\ pk[j] # 0 } }
    \cup { <<"make_list_kernel", "scatter", w[2]>> : w \in stray }

\* make_list_kernel<<<blocks, threadsPerBlock>>>(peaks, prefixes, device_output)
MakeListLaunch ==
    /\ peakPc = "list"
    /\ \E stray \in StrayWrites :
         LET writes == ListWrites(peaks, peakPrefixes, stray) IN
         /\ listWrites' = writes
         /\ peakOob' = peakOob \cup MakeListOob(peaks, stray)
         /\ device_output' \in ListOutcomes(device_output, writes, PeakN - 1)
    /\ peakPc' = "copy"
    /\ UNCHANGED <<device_input, peakLength, peaks, peakPrefixes, ans>>

\* cudaMemcpy(&ans, prefixes + length - 1, ...); return ans
PeakReturn ==
    /\ peakPc = "copy"
    /\ ans' = peakPrefixes[peakLength - 1]
    /\ peakPc' = "done"
    /\ UNCHANGED <<device_input, peakLength, peaks, peakPrefixes, device_output, listWrites, peakOob>>

(***************************************************************************)
(* CudaRenderer.  Coordinates are the normalised floats of the source      *)
(* times CoordDen, colours and alpha are the floats times ColorScale; with *)
(* the scenes below every value the kernels compute is an integer in these *)
(* units, so the arithmetic is exact.  Only the flat-colour scenes are     *)
(* modelled (the snowflake shading needs exp and the colour ramp), and z   *)
(* is left out because only the snowflake shading reads it.                *)
(***************************************************************************)
ImageWidth == 3      \* image->width
ImageHeight == 3     \* image->height
TileSize == 2        \* side of a tile, in pixels
MaxCircles == 3      \* largest numberOfCircles
ScanBlockLog == 1    \* log2 of the width of a scan / mark / list thread block
MaxFrames == 2       \* frames rendered
SmallRadius == 2     \* the smaller of the two radii of the scenes

\* int blockSize = 64 in the source; the model's tiles are TileSize pixels wide
blockSize == TileSize
\* #define SCAN_BLOCK_DIM 1024 in the source; the model's blocks are narrower
SCAN_BLOCK_DIM == Pow2(ScanBlockLog)
\* dim3 blockDim(1024, 1) of the mark and list launches: as wide as SCAN_BLOCK_DIM
blockDimX == SCAN_BLOCK_DIM
\* threadBlockSize = 32: the render launch uses 32 x 32 blocks
threadBlockSize == 32

CoordDen == 2 * ImageWidth * ImageHeight
ColorScale == Pow2(MaxCircles)

\* setup(): the tile grid
blocksXSize == (ImageWidth + blockSize - 1) \div blockSize
blocksYSize == (ImageHeight + blockSize - 1) \div blockSize
numBlocks == blocksXSize * blocksYSize

White == <<ColorScale, ColorScale, ColorScale, ColorScale>>
\* what an uninitialised float4 register may hold besides a value of the kernel
GarbageColor == <<7, 7, 7, 7>>
\* values an uninitialised int of the list buffers may hold
UninitListInts == {-1, 7}

\* the animated flat-colour scenes (a static scene renders like BOUNCING_BALLS
\* with every ball at rest)
SceneNames == {"BOUNCING_BALLS", "HYPNOSIS"}
LargeRadius == 2 * ImageHeight
ScenePositions ==
    { <<ImageHeight, ImageWidth>>,
      <<CoordDen \div 2, CoordDen \div 2>>,
      <<CoordDen - ImageHeight, CoordDen - ImageWidth>> }
SceneYs == { q[2] : q \in ScenePositions }
\* position[index3 + 1] += velocity[index3 + 1] * dt, on the heights of the model:
\* the ball falls to the next lower height and bounces back from the lowest
NextY(y) ==
    LET lower == { q \in SceneYs : q < y }
    IN  IF lower = {} THEN CHOOSE q \in SceneYs : \A r \in SceneYs : r <= q
        ELSE CHOOSE q \in lower : \A r \in lower : r <= q
SceneRadii == {SmallRadius, LargeRadius}
CircleColor(c) ==
    << IF c % 3 = 0 THEN ColorScale ELSE 0,
       IF c % 3 = 1 THEN ColorScale ELSE 0,
       IF c % 3 = 2 THEN ColorScale ELSE 0 >>

\* the circle indices a block of bd threads covers with
\*   circleIdx = threadIdx.x; do { if (circleIdx >= n) break; ...; circleIdx += bd; j++; }
\*   while (j < (n + bd - 1) / bd)
StridedIndices(n, bd) ==
    LET maxIterations == (n + bd - 1) \div bd
        iters == IF maxIterations >= 1 THEN maxIterations ELSE 1
    IN  { c \in { tid + j * bd : tid \in 0 .. (bd - 1), j \in 0 .. (iters - 1) } : c < n }

\* circleInBox of circleBoxTest.cu_inl: the circle's bounding box against the
\* box, boundaries included
circleInBox(circleX, circleY, circleRadius, boxL, boxR, boxT, boxB) ==
    IF /\ circleX + circleRadius >= boxL
       /\ circleX - circleRadius <= boxR
       /\ circleY + circleRadius >= boxB
       /\ circleY - circleRadius <= boxT
    THEN 1 ELSE 0

\* the box of tile t: (blockSize*blockX + 0.5)/imageWidth and so on
BoxL(t) == (2 * blockSize * (t % blocksXSize) + 1) * ImageHeight
\* a right edge without the half pixel: blockSize*(blockX + 1)/imageWidth
BoxR_no_half_pixel(t) == (2 * blockSize * ((t % blocksXSize) + 1)) * ImageHeight
BoxR(t) == (2 * blockSize * ((t % blocksXSize) + 1) + 1) * ImageHeight
BoxB(t) == (2 * blockSize * (t \div blocksXSize) + 1) * ImageWidth
BoxT(t) == (2 * blockSize * ((t \div blocksXSize) + 1) + 1) * ImageWidth

\* a mark loop whose iteration count is rounded down: numCircles / blockDim.x
MarkWriters_floor_iterations(numCircles) ==
    LET maxIterations == numCircles \div blockDimX
        iters == IF maxIterations >= 1 THEN maxIterations ELSE 1
    IN  { <<b, tid, j, b * numCircles + (tid + j * blockDimX)>> :
            <<b, tid, j>> \in { x \in (0 .. (numBlocks - 1)) \X (0 .. (blockDimX - 1))
                                        \X (0 .. (iters - 1)) :
                                   x[2] + x[3] * blockDimX < numCircles } }

\* the writes of kernelMarkBlocks: <<blockIdx.x, threadIdx.x, j, index written>> for
\* every iteration j of every thread that passes circleIdx < numCircles
MarkWriters(numCircles) ==
    LET maxIterations == (numCircles + blockDimX - 1) \div blockDimX
        iters == IF maxIterations >= 1 THEN maxIterations ELSE 1
    IN  { <<b, tid, j, b * numCircles + (tid + j * blockDimX)>> :
            <<b, tid, j>> \in { x \in (0 .. (numBlocks - 1)) \X (0 .. (blockDimX - 1))
                                        \X (0 .. (iters - 1)) :
                                   x[2] + x[3] * blockDimX < numCircles } }

\* a mark kernel without the strided loop (maxIterations = 1): each thread
\* handles the circle threadIdx.x only
kernelMarkBlocks_one_iteration(hc, pos, rad, numCircles) ==
    [k \in DOMAIN hc |->
        LET t == k \div numCircles
            circleIdx == k % numCircles
        IN  IF circleIdx < blockDimX
            THEN circleInBox(pos[circleIdx][1], pos[circleIdx][2], rad[circleIdx],
                             BoxL(t), BoxR(t), BoxT(t), BoxB(t))
            ELSE hc[k]]

\* a mark kernel that hands boxB and boxT to circleInBox in each other's place
kernelMarkBlocks_switched_top_bottom(hc, pos, rad, numCircles) ==
    [k \in DOMAIN hc |->
        LET t == k \div numCircles
            circleIdx == k % numCircles
        IN  IF circleIdx \in StridedIndices(numCircles, blockDimX)
            THEN circleInBox(pos[circleIdx][1], pos[circleIdx][2], rad[circleIdx],
                             BoxL(t), BoxR(t), BoxB(t), BoxT(t))
            ELSE hc[k]]

\* kernelMarkBlocks<<<numBlocks, blockDim>>>(blockSize, hitCircles, numCircles)
kernelMarkBlocks(hc, pos, rad, numCircles) ==
    [k \in DOMAIN hc |->
        LET t == k \div numCircles
            circleIdx == k % numCircles
        IN  IF circleIdx \in StridedIndices(numCircles, blockDimX)
            THEN circleInBox(pos[circleIdx][1], pos[circleIdx][2], rad[circleIdx],
                             BoxL(t), BoxR(t), BoxT(t), BoxB(t))
            ELSE hc[k]]

\* sharedMemExclusiveScan of exclusiveScan.cu_inl: the up-sweep / down-sweep
\* scan of SCAN_BLOCK_DIM elements in the scratch buffer
RECURSIVE SharedUpsweep(_, _)
SharedUpsweep(scratch, tw) ==
    IF tw < SCAN_BLOCK_DIM
    THEN SharedUpsweep([k \in DOMAIN scratch |->
                           IF (k + 1) % (2 * tw) = 0 THEN scratch[k] + scratch[k - tw]
                           ELSE scratch[k]], 2 * tw)
    ELSE scratch

RECURSIVE SharedDownsweep(_, _)
SharedDownsweep(scratch, tw) ==
    IF tw >= 1
    THEN SharedDownsweep([k \in DOMAIN scratch |->
                             IF (k + 1) % (2 * tw) = 0 THEN scratch[k] + scratch[k - tw]
                             ELSE IF (k + 1) % (2 * tw) = tw THEN scratch[k + tw]
                             ELSE scratch[k]], tw \div 2)
    ELSE scratch

sharedMemExclusiveScan(sInput) ==
    LET up == SharedUpsweep(sInput, 1)
    IN  SharedDownsweep([up EXCEPT ![SCAN_BLOCK_DIM - 1] = 0], SCAN_BLOCK_DIM \div 2)

\* the writes of kernelScan2 to prefixes: <<blockIdx.x, threadIdx.x, j, index written>>
\* for every iteration j in which the thread passes i < numCircles
Scan2Writers(numCircles) ==
    LET maxIterations == (numCircles + SCAN_BLOCK_DIM - 1) \div SCAN_BLOCK_DIM
        iters == IF maxIterations >= 1 THEN maxIterations ELSE 1
    IN  { <<b, tid, j, b * numCircles + (tid + j * SCAN_BLOCK_DIM)>> :
            <<b, tid, j>> \in { x \in (0 .. (numBlocks - 1)) \X (0 .. (SCAN_BLOCK_DIM - 1))
                                        \X (0 .. (iters - 1)) :
                                   x[2] + x[3] * SCAN_BLOCK_DIM < numCircles } }

\* one event of a worker of kernelScan2: the operation, its source line, the
\* element of the global buffer it touches (-1 if none) and the iteration j
Scan2Event(op, line, addr, j) == [op |-> op, line |-> line, addr |-> addr, iter |-> j]

\* the events of the carry adjustment of iteration j >= 1 for the element at
\* base + i: read of the carry element, read of its mark, prefixes[...] += add
Scan2Carry(base, i, j) ==
    << Scan2Event("read prefixes", 840, base + (j * SCAN_BLOCK_DIM) - 1, j),
       Scan2Event("read hitCircles", 842, base + (j * SCAN_BLOCK_DIM) - 1, j),
       Scan2Event("write prefixes", 844, base + i, j) >>

\* the events of worker tid of block t in iteration j of the do-while, in program order
Scan2Iteration(tid, numCircles, t, j) ==
    LET i    == tid + j * SCAN_BLOCK_DIM
        base == t * numCircles
    IN  (IF i < numCircles THEN << Scan2Event("read hitCircles", 831, base + i, j) >> ELSE << >>)
        \o << Scan2Event("barrier", 833, -1, j),
              Scan2Event("scan", 834, -1, j),
              Scan2Event("barrier", 835, -1, j) >>
        \o (IF i < numCircles
            THEN << Scan2Event("write prefixes", 838, base + i, j) >>
                 \o (IF j >= 1 THEN Scan2Carry(base, i, j) ELSE << >>)
            ELSE << >>)

\* a loop that a worker leaves when its index is past the last circle, as the
\* loops of the mark and list kernels do: if (i >= numCircles) break
RECURSIVE Scan2WorkerLoop_break_past_end(_, _, _, _)
Scan2WorkerLoop_break_past_end(tid, numCircles, t, j) ==
    LET maxIterations == (numCircles + SCAN_BLOCK_DIM - 1) \div SCAN_BLOCK_DIM
    IN  IF tid + j * SCAN_BLOCK_DIM >= numCircles THEN << >>
        ELSE Scan2Iteration(tid, numCircles, t, j)
             \o (IF j + 1 < maxIterations
                 THEN Scan2WorkerLoop_break_past_end(tid, numCircles, t, j + 1)
                 ELSE << >>)

\* a loop that reads the carry element at the top of the iteration, before
\* the barriers
RECURSIVE Scan2WorkerLoop_carry_before_barrier(_, _, _, _)
Scan2WorkerLoop_carry_before_barrier(tid, numCircles, t, j) ==
    LET maxIterations == (numCircles + SCAN_BLOCK_DIM - 1) \div SCAN_BLOCK_DIM
        i    == tid + j * SCAN_BLOCK_DIM
        base == t * numCircles
    IN  (IF i < numCircles /\ j >= 1
         THEN << Scan2Event("read prefixes", 840, base + (j * SCAN_BLOCK_DIM) - 1, j) >>
         ELSE << >>)
        \o (IF i < numCircles THEN << Scan2Event("read hitCircles", 831, base + i, j) >> ELSE << >>)
        \o << Scan2Event("barrier", 833, -1, j),
              Scan2Event("scan", 834, -1, j),
              Scan2Event("barrier", 835, -1, j) >>
        \o (IF i < numCircles
            THEN << Scan2Event("write prefixes", 838, base + i, j) >>
                 \o (IF j >= 1 THEN << Scan2Event("write prefixes", 844, base + i, j) >> ELSE << >>)
            ELSE << >>)
        \o (IF j + 1 < maxIterations
            THEN Scan2WorkerLoop_carry_before_barrier(tid, numCircles, t, j + 1)
            ELSE << >>)

\* do { iteration j; i += SCAN_BLOCK_DIM; j++; } while (j < maxIterations), from j on
RECURSIVE Scan2WorkerLoop(_, _, _, _)
Scan2WorkerLoop(tid, numCircles, t, j) ==
    LET maxIterations == (numCircles + SCAN_BLOCK_DIM - 1) \div SCAN_BLOCK_DIM
    IN  Scan2Iteration(tid, numCircles, t, j)
        \o (IF j + 1 < maxIterations
            THEN Scan2WorkerLoop(tid, numCircles, t, j + 1)
            ELSE << >>)

\* the events of worker tid of block t of kernelScan2
Scan2WorkerEvents(tid, numCircles, t) == Scan2WorkerLoop(tid, numCircles, t, 0)

\* a chunk iteration that does not add the total of the previous chunks
Scan2Chunk_no_carry(hc, pre, input, numCircles, t, j) ==
    LET base == t * numCircles
        in2  == [tid \in 0 .. (SCAN_BLOCK_DIM - 1) |->
                    IF j * SCAN_BLOCK_DIM + tid < numCircles
                    THEN hc[base + j * SCAN_BLOCK_DIM + tid] ELSE input[tid]]
        out  == sharedMemExclusiveScan(in2)
        mine(k) == k \div numCircles = t /\ (k % numCircles) \div SCAN_BLOCK_DIM = j
    IN  << [k \in DOMAIN pre |->
               IF mine(k) THEN out[(k % numCircles) % SCAN_BLOCK_DIM] ELSE pre[k]], in2 >>

\* one iteration j of the do-while of kernelScan2 in block t: <<prefixes, prefixSumInput>>
Scan2Chunk(hc, pre, input, numCircles, t, j) ==
    LET base == t * numCircles
        in2  == [tid \in 0 .. (SCAN_BLOCK_DIM - 1) |->
                    IF j * SCAN_BLOCK_DIM + tid < numCircles
                    THEN hc[base + j * SCAN_BLOCK_DIM + tid] ELSE input[tid]]
        out  == sharedMemExclusiveScan(in2)
        mine(k) == k \div numCircles = t /\ (k % numCircles) \div SCAN_BLOCK_DIM = j
        pre1 == [k \in DOMAIN pre |->
                    IF mine(k) THEN out[(k % numCircles) % SCAN_BLOCK_DIM] ELSE pre[k]]
        last == base + (j * SCAN_BLOCK_DIM) - 1
        add0 == IF pre1[last] >= 0 THEN pre1[last] ELSE 0
        add  == IF hc[last] = 1 THEN add0 + 1 ELSE add0
        pre2 == IF j >= 1
                THEN [k \in DOMAIN pre |-> IF mine(k) THEN pre1[k] + add ELSE pre1[k]]
                ELSE pre1
    IN  <<pre2, in2>>

RECURSIVE Scan2Loop(_, _, _, _, _, _)
Scan2Loop(hc, pre, input, numCircles, t, j) ==
    LET r == Scan2Chunk(hc, pre, input, numCircles, t, j)
        maxIterations == (numCircles + SCAN_BLOCK_DIM - 1) \div SCAN_BLOCK_DIM
    IN  IF j + 1 < maxIterations
        THEN Scan2Loop(hc, r[1], r[2], numCircles, t, j + 1)
        ELSE r[1]

RECURSIVE Scan2Blocks(_, _, _, _, _)
Scan2Blocks(hc, pre, numCircles, t, uninit) ==
    IF t >= numBlocks THEN pre
    ELSE Scan2Blocks(hc,
                     Scan2Loop(hc, pre, [tid \in 0 .. (SCAN_BLOCK_DIM - 1) |-> uninit],
                               numCircles, t, 0),
                     numCircles, t + 1, uninit)

\* kernelScan2<<<numBlocks, SCAN_BLOCK_DIM>>>(hitCircles, prefixes, numCircles);
\* `uninit` is what the shared arrays hold when the block starts
kernelScan2(hc, pre, numCircles, uninit) == Scan2Blocks(hc, pre, numCircles, 0, uninit)

\* list building that scatters the circle one slot too far
MakeListsWrites_shifted(hc, pre, numCircles, t) ==
    UNION { LET index == t * numCircles + circleIdx
                idx   == pre[index]
            IN  (IF hc[index] = 1 /\ idx < numCircles - 1
                 THEN { <<t * numCircles + idx + 1, circleIdx>> } ELSE {})
                \cup
                (IF circleIdx = numCircles - 1
                 THEN IF hc[index] = 1 /\ idx < numCircles - 1
                      THEN { <<t * numCircles + idx + 1, -1>> }
                      ELSE IF hc[index] = 0
                      THEN { <<t * numCircles + idx, -1>> }
                      ELSE {}
                 ELSE {})
          : circleIdx \in StridedIndices(numCircles, blockDimX) }

\* list building whose last thread writes the sentinel only when circle N-1 missed
MakeListsWrites_no_sentinel_after_hit(hc, pre, numCircles, t) ==
    UNION { LET index == t * numCircles + circleIdx
                idx   == pre[index]
            IN  (IF hc[index] = 1 THEN { <<t * numCircles + idx, circleIdx>> } ELSE {})
                \cup
                (IF circleIdx = numCircles - 1 /\ hc[index] = 0
                 THEN { <<t * numCircles + idx, -1>> }
                 ELSE {})
          : circleIdx \in StridedIndices(numCircles, blockDimX) }

\* list building whose last thread writes the sentinel at idx also when circle N-1 hit
MakeListsWrites_sentinel_at_idx(hc, pre, numCircles, t) ==
    UNION { LET index == t * numCircles + circleIdx
                idx   == pre[index]
            IN  (IF hc[index] = 1 THEN { <<t * numCircles + idx, circleIdx>> } ELSE {})
                \cup
                (IF circleIdx = numCircles - 1
                 THEN IF hc[index] = 1 /\ idx < numCircles - 1
                      THEN { <<t * numCircles + idx, -1>> }
                      ELSE IF hc[index] = 0
                      THEN { <<t * numCircles + idx, -1>> }
                      ELSE {}
                 ELSE {})
          : circleIdx \in StridedIndices(numCircles, blockDimX) }

\* list building whose last thread writes the sentinel at idx + 1 also when
\* circle N-1 missed the tile
MakeListsWrites_sentinel_one_late(hc, pre, numCircles, t) ==
    UNION { LET index == t * numCircles + circleIdx
                idx   == pre[index]
            IN  (IF hc[index] = 1 THEN { <<t * numCircles + idx, circleIdx>> } ELSE {})
                \cup
                (IF circleIdx = numCircles - 1 /\ idx < numCircles - 1
                 THEN { <<t * numCircles + idx + 1, -1>> }
                 ELSE {})
          : circleIdx \in StridedIndices(numCircles, blockDimX) }

\* a list kernel that writes the sentinel behind the last hit without the test
\* idx < numCircles - 1
MakeListsWrites_sentinel_unguarded(hc, pre, numCircles, t) ==
    UNION { LET index == t * numCircles + circleIdx
                idx   == pre[index]
            IN  (IF hc[index] = 1 THEN { <<t * numCircles + idx, circleIdx>> } ELSE {})
                \cup
                (IF circleIdx = numCircles - 1
                 THEN IF hc[index] = 1
                      THEN { <<t * numCircles + idx + 1, -1>> }
                      ELSE { <<t * numCircles + idx, -1>> }
                 ELSE {})
          : circleIdx \in StridedIndices(numCircles, blockDimX) }

\* the writes <<address, value>> of block t of kernelMakeLists
MakeListsWrites(hc, pre, numCircles, t) ==
    UNION { LET index == t * numCircles + circleIdx
                idx   == pre[index]
            IN  (IF hc[index] = 1 THEN { <<t * numCircles + idx, circleIdx>> } ELSE {})
                \cup
                (IF circleIdx = numCircles - 1
                 THEN IF hc[index] = 1 /\ idx < numCircles - 1
                      THEN { <<t * numCircles + idx + 1, -1>> }
                      ELSE IF hc[index] = 0
                      THEN { <<t * numCircles + idx, -1>> }
                      ELSE {}
                 ELSE {})
          : circleIdx \in StridedIndices(numCircles, blockDimX) }

\* kernelMakeLists<<<numBlocks, blockDim>>>(hitCircles, prefixes, hitCirclesList)
kernelMakeLists(hc, pre, numCircles) ==
    UNION { MakeListsWrites(hc, pre, numCircles, t) : t \in 0 .. (numBlocks - 1) }

\* pixel centre: invWidth * (pixelX + 0.5), invHeight * (pixelY + 0.5)
PixelCenterX(pixelX) == (2 * pixelX + 1) * ImageHeight
PixelCenterY(pixelY) == (2 * pixelY + 1) * ImageWidth

\* a tile id computed with the row length rounded down: imageWidth / blockSize
RenderBlockId_floor_grid(pixelX, pixelY) ==
    LET gridXSize == ImageWidth \div blockSize
    IN  ((pixelY \div blockSize) * gridXSize) + (pixelX \div blockSize)

\* the tile a pixel worker reads: blockId = (pixelY/blockSize)*gridXSize + pixelX/blockSize
RenderBlockId(pixelX, pixelY) ==
    LET gridXSize == (ImageWidth + blockSize - 1) \div blockSize
    IN  ((pixelY \div blockSize) * gridXSize) + (pixelX \div blockSize)

\* pixelDist > maxDist is false
Contributes(pos, rad, c, pixelX, pixelY) ==
    LET diffX == pos[c][1] - PixelCenterX(pixelX)
        diffY == pos[c][2] - PixelCenterY(pixelY)
    IN  ~(diffX * diffX + diffY * diffY > rad[c] * rad[c])

\* an over-operator that clamps the accumulated alpha to 1
Composite_alpha_clamped(rgb, existingColor) ==
    << (rgb[1] + existingColor[1]) \div 2,
       (rgb[2] + existingColor[2]) \div 2,
       (rgb[3] + existingColor[3]) \div 2,
       IF (ColorScale \div 2) + existingColor[4] > ColorScale
       THEN ColorScale ELSE (ColorScale \div 2) + existingColor[4] >>

\* newColor = alpha * rgb + oneMinusAlpha * existingColor with alpha = .5f;
\* newColor.w = alpha + existingColor.w
Composite(rgb, existingColor) ==
    << (rgb[1] + existingColor[1]) \div 2,
       (rgb[2] + existingColor[2]) \div 2,
       (rgb[3] + existingColor[3]) \div 2,
       (ColorScale \div 2) + existingColor[4] >>

\* a list loop that skips a negative entry instead of leaving the loop
RECURSIVE ConsumedCircles_skip_negative(_, _, _, _)
ConsumedCircles_skip_negative(list, numCircles, blockId, i) ==
    IF i >= numCircles THEN <<>>
    ELSE LET circleIndex == list[blockId * numCircles + i]
         IN  IF circleIndex < 0
             THEN ConsumedCircles_skip_negative(list, numCircles, blockId, i + 1)
             ELSE <<circleIndex>> \o ConsumedCircles_skip_negative(list, numCircles, blockId, i + 1)

\* the circle indices the loop of a pixel worker of tile blockId goes on to shade
\* from entry i on: for (i < numCircles) { circleIndex = list[...]; if (< 0) break; ... }
RECURSIVE ConsumedCircles(_, _, _, _)
ConsumedCircles(list, numCircles, blockId, i) ==
    IF i >= numCircles THEN <<>>
    ELSE LET circleIndex == list[blockId * numCircles + i]
         IN  IF circleIndex < 0 THEN <<>>
             ELSE <<circleIndex>> \o ConsumedCircles(list, numCircles, blockId, i + 1)

\* the loop over the tile's list from entry i on: <<existingColor, newColor was assigned>>
RECURSIVE ShadeLoop(_, _, _, _, _, _, _, _, _, _)
ShadeLoop(list, pos, rad, col, numCircles, pixelX, pixelY, i, existingColor, assigned) ==
    IF i >= numCircles THEN <<existingColor, assigned>>
    ELSE LET circleIndex == list[RenderBlockId(pixelX, pixelY) * numCircles + i]
         IN  IF circleIndex < 0 THEN <<existingColor, assigned>>
             ELSE IF circleIndex \notin DOMAIN rad THEN <<GarbageColor, TRUE>>
             ELSE IF ~Contributes(pos, rad, circleIndex, pixelX, pixelY)
             THEN ShadeLoop(list, pos, rad, col, numCircles, pixelX, pixelY, i + 1,
                            existingColor, assigned)
             ELSE ShadeLoop(list, pos, rad, col, numCircles, pixelX, pixelY, i + 1,
                            Composite(col[circleIndex], existingColor), TRUE)

\* the threads of the render launch, gridDim blocks of threadBlockSize x threadBlockSize
RenderThreads ==
    LET gridDimX == (ImageWidth + threadBlockSize - 1) \div threadBlockSize
        gridDimY == (ImageHeight + threadBlockSize - 1) \div threadBlockSize
    IN  (0 .. (gridDimX * threadBlockSize - 1)) \X (0 .. (gridDimY * threadBlockSize - 1))

\* a guard that lets the thread one past the edge through:
\* if ((indexX > imageWidth) || (indexY > imageHeight)) return
RenderWriters_guard_past_edge ==
    { <<th[1], th[2], th[2] * ImageWidth + th[1]>> :
        th \in { x \in RenderThreads : ~(x[1] > ImageWidth \/ x[2] > ImageHeight) } }

\* the stores of kernelRenderPixelsLocal: <<indexX, indexY, pixelY * imageWidth + pixelX>>
\* (the float4 the thread stores to) for every thread that passes
\* if ((indexX >= imageWidth) || (indexY >= imageHeight)) return
RenderWriters ==
    { <<th[1], th[2], th[2] * ImageWidth + th[1]>> :
        th \in { x \in RenderThreads : ~(x[1] >= ImageWidth \/ x[2] >= ImageHeight) } }

\* the float4 elements the render launch stores to
RenderWritten == { w[3] : w \in RenderWriters }

\* kernelRenderPixelsLocal<<<gridDim, blockDim>>>(hitCirclesList, blockSize): every
\* thread inside the image stores newColor; `uninit` says what newColor holds
\* when no circle assigned it ("kept": the registers of existingColor)
kernelRenderPixelsLocal(img, list, pos, rad, col, numCircles, uninit) ==
    [p \in DOMAIN img |->
        LET pixelX == p % ImageWidth
            pixelY == p \div ImageWidth
            r == ShadeLoop(list, pos, rad, col, numCircles, pixelX, pixelY, 0, img[p], FALSE)
        IN  IF p \in RenderWritten
            THEN IF r[2] THEN r[1]
                 ELSE IF uninit = "kept" THEN img[p] ELSE GarbageColor
            ELSE img[p]]

\* kernelClearImage<<<gridDim, blockDim>>>(1.f, 1.f, 1.f, 1.f)
kernelClearImage(img) == [p \in DOMAIN img |-> White]

\* radius[index] > cutOff ? 0.02f : radius[index] + 0.01f, on the two radii of the model
kernelAdvanceHypnosis(rad) ==
    [c \in DOMAIN rad |->
        IF rad[c] > SmallRadius THEN SmallRadius ELSE rad[c] + (LargeRadius - SmallRadius)]

RenderIdle ==
    /\ rPc = "idle"
    /\ frame = 0
    /\ sceneName = "NONE"
    /\ numberOfCircles = 0
    /\ position = <<>>
    /\ radius = <<>>
    /\ color = <<>>
    /\ hitCircles = <<>>
    /\ prefixes = <<>>
    /\ hitCirclesList = <<>>
    /\ imageData = <<>>
    /\ imageBefore = <<>>

\* loadScene and setup: the circle arrays, and the device buffers as cudaMalloc
\* returns them (never cleared)
RenderInit ==
    /\ rPc = "start"
    /\ frame = 0
    /\ sceneName \in SceneNames
    /\ numberOfCircles \in 0 .. MaxCircles
    /\ position \in [0 .. (numberOfCircles - 1) -> ScenePositions]
    /\ radius \in [0 .. (numberOfCircles - 1) -> SceneRadii]
    /\ color = [c \in 0 .. (numberOfCircles - 1) |-> CircleColor(c)]
    /\ \E u \in UninitListInts :
         /\ hitCircles = [k \in 0 .. (numBlocks * numberOfCircles - 1) |-> u]
         /\ prefixes = [k \in 0 .. (numBlocks * numberOfCircles - 1) |-> u]
         /\ hitCirclesList = [k \in 0 .. (numBlocks * numberOfCircles - 1) |-> u]
    /\ imageData = [p \in 0 .. (ImageWidth * ImageHeight - 1) |-> GarbageColor]
    /\ imageBefore = imageData

\* clearImage()
ClearImage ==
    /\ rPc \in {"start", "end"}
    /\ frame < MaxFrames
    /\ frame' = frame + 1
    /\ imageData' = kernelClearImage(imageData)
    /\ rPc' = "animate"
    /\ UNCHANGED <<sceneName, numberOfCircles, position, radius, color,
                   hitCircles, prefixes, hitCirclesList, imageBefore>>

\* an advanceAnimation that launches kernelAdvanceHypnosis for BOUNCING_BALLS too
AdvanceAnimation_hypnosis_for_balls ==
    /\ rPc = "animate"
    /\ \/ /\ sceneName \in {"BOUNCING_BALLS", "HYPNOSIS"}
          /\ radius' = kernelAdvanceHypnosis(radius)
          /\ UNCHANGED position
       \/ /\ sceneName \notin {"BOUNCING_BALLS", "HYPNOSIS"}
          /\ UNCHANGED <<position, radius>>
    /\ rPc' = "mark"
    /\ UNCHANGED <<frame, sceneName, numberOfCircles, color,
                   hitCircles, prefixes, hitCirclesList, imageData, imageBefore>>

\* advanceAnimation(): the bouncing balls move along y (ball 0 here, to the
\* next height of the scene, the others being at rest), hypnosis changes the radii, no kernel runs for another scene
AdvanceAnimation ==
    /\ rPc = "animate"
    /\ \/ /\ sceneName = "BOUNCING_BALLS"
          /\ numberOfCircles >= 1
          /\ position' = [position EXCEPT ![0] = <<position[0][1], NextY(position[0][2])>>]
          /\ UNCHANGED radius
       \/ /\ sceneName = "HYPNOSIS"
          /\ radius' = kernelAdvanceHypnosis(radius)
          /\ UNCHANGED position
       \/ /\ sceneName \notin {"BOUNCING_BALLS", "HYPNOSIS"} \/ numberOfCircles = 0
          /\ UNCHANGED <<position, radius>>
    /\ rPc' = "mark"
    /\ UNCHANGED <<frame, sceneName, numberOfCircles, color,
                   hitCircles, prefixes, hitCirclesList, imageData, imageBefore>>

\* render(): kernelMarkBlocks and cudaDeviceSynchronize
MarkLaunch ==
    /\ rPc = "mark"
    /\ hitCircles' = kernelMarkBlocks(hitCircles, position, radius, numberOfCircles)
    /\ rPc' = "scan"
    /\ UNCHANGED <<frame, sceneName, numberOfCircles, position, radius, color,
                   prefixes, hitCirclesList, imageData, imageBefore>>

\* render(): kernelScan2 and cudaDeviceSynchronize
ScanLaunch ==
    /\ rPc = "scan"
    /\ \E uninit \in UninitInts :
         prefixes' = kernelScan2(hitCircles, prefixes, numberOfCircles, uninit)
    /\ rPc' = "list"
    /\ UNCHANGED <<frame, sceneName, numberOfCircles, position, radius, color,
                   hitCircles, hitCirclesList, imageData, imageBefore>>

\* a list launch that does not wait for the scan launch to be over
ListLaunch_before_scan_done ==
    /\ rPc \in {"scan", "list"}
    /\ hitCirclesList' \in
         ListOutcomes(hitCirclesList, kernelMakeLists(hitCircles, prefixes, numberOfCircles),
                      numBlocks * numberOfCircles - 1)
    /\ rPc' = "render"
    /\ UNCHANGED <<frame, sceneName, numberOfCircles, position, radius, color,
                   hitCircles, prefixes, imageData, imageBefore>>

\* render(): kernelMakeLists and cudaDeviceSynchronize
ListLaunch ==
    /\ rPc = "list"
    /\ hitCirclesList' \in
         ListOutcomes(hitCirclesList, kernelMakeLists(hitCircles, prefixes, numberOfCircles),
                      numBlocks * numberOfCircles - 1)
    /\ rPc' = "render"
    /\ UNCHANGED <<frame, sceneName, numberOfCircles, position, radius, color,
                   hitCircles, prefixes, imageData, imageBefore>>

\* render(): kernelRenderPixelsLocal and cudaDeviceSynchronize
RenderLaunch ==
    /\ rPc = "render"
    /\ imageBefore' = imageData
    /\ \E uninit \in {"kept", "garbage"} :
         imageData' = kernelRenderPixelsLocal(imageData, hitCirclesList, position, radius,
                                              color, numberOfCircles, uninit)
    /\ rPc' = "end"
    /\ UNCHANGED <<frame, sceneName, numberOfCircles, position, radius, color,
                   hitCircles, prefixes, hitCirclesList>>

(***************************************************************************)
(* CudaRenderer::setup: the device allocations, and the stages of the      *)
(* first frame that use them                                               *)
(***************************************************************************)
\* the cudaMalloc calls of setup in program order; `checked` is TRUE where the
\* call is wrapped in cudaCheckError
SetupMallocs ==
    << [buffer |-> "hitCircles",          line |-> 1013, checked |-> TRUE],
       [buffer |-> "prefixes",            line |-> 1014, checked |-> TRUE],
       [buffer |-> "hitCirclesList",      line |-> 1015, checked |-> TRUE],
       [buffer |-> "cudaDevicePosition",  line |-> 1017, checked |-> FALSE],
       [buffer |-> "cudaDeviceVelocity",  line |-> 1018, checked |-> FALSE],
       [buffer |-> "cudaDeviceColor",     line |-> 1019, checked |-> FALSE],
       [buffer |-> "cudaDeviceRadius",    line |-> 1020, checked |-> FALSE],
       [buffer |-> "cudaDeviceImageData", line |-> 1021, checked |-> FALSE] >>

\* the stages that follow the allocations, with the buffers each one uses;
\* `kernel` is TRUE for a kernel launch, `line` is the line of the
\* cudaCheckError( cudaDeviceSynchronize() ) that follows the launch, 0 if none
SetupStages ==
    << [stage |-> "cudaMemcpy", kernel |-> FALSE, line |-> 0,
        buffers |-> {"cudaDevicePosition", "cudaDeviceVelocity", "cudaDeviceColor",
                     "cudaDeviceRadius"}],
       [stage |-> "kernelClearImage", kernel |-> TRUE, line |-> 0,
        buffers |-> {"cudaDeviceImageData"}],
       [stage |-> "kernelAdvance", kernel |-> TRUE, line |-> 0,
        buffers |-> {"cudaDevicePosition", "cudaDeviceVelocity", "cudaDeviceRadius"}],
       [stage |-> "kernelMarkBlocks", kernel |-> TRUE, line |-> 1135,
        buffers |-> {"hitCircles", "cudaDevicePosition", "cudaDeviceRadius"}],
       [stage |-> "kernelScan2", kernel |-> TRUE, line |-> 1155,
        buffers |-> {"hitCircles", "prefixes"}],
       [stage |-> "kernelMakeLists", kernel |-> TRUE, line |-> 1165,
        buffers |-> {"hitCircles", "prefixes", "hitCirclesList"}],
       [stage |-> "kernelRenderPixelsLocal", kernel |-> TRUE, line |-> 1184,
        buffers |-> {"hitCirclesList", "cudaDevicePosition", "cudaDeviceRadius",
                     "cudaDeviceColor", "cudaDeviceImageData"}] >>

\* cudaAssert(code, file, line) with code != cudaSuccess: the line written to
\* stderr; the call then leaves through exit(code)
cudaAssert(line) == <<"CUDA Error", "cudaRenderer.cu", line>>

SetupIdle ==
    /\ setupPc = "idle"
    /\ setupStep = 0
    /\ failedAllocs = {}
    /\ deviceError = FALSE
    /\ diagnostics = <<>>
    /\ unallocatedUse = {}

\* entry of setup, every device pointer NULL as the constructor left it
SetupStart ==
    /\ setupPc = "malloc"
    /\ setupStep = 1
    /\ failedAllocs = {}
    /\ deviceError = FALSE
    /\ diagnostics = <<>>
    /\ unallocatedUse = {}

\* cudaCheckError( cudaMalloc(&buffer, ...) ): an error is printed and ends the process
MallocChecked ==
    /\ setupPc = "malloc"
    /\ setupStep \in DOMAIN SetupMallocs
    /\ SetupMallocs[setupStep].checked
    /\ \E ok \in BOOLEAN :
         IF ok
         THEN /\ setupStep' = setupStep + 1
              /\ UNCHANGED <<setupPc, failedAllocs, diagnostics>>
         ELSE /\ failedAllocs' = failedAllocs \cup {SetupMallocs[setupStep].buffer}
              /\ diagnostics' = Append(diagnostics, cudaAssert(SetupMallocs[setupStep].line))
              /\ setupPc' = "exited"
              /\ UNCHANGED setupStep
    /\ UNCHANGED <<deviceError, unallocatedUse>>

\* cudaMalloc(&buffer, ...) whose result is dropped: setup goes on either way
MallocUnchecked ==
    /\ setupPc = "malloc"
    /\ setupStep \in DOMAIN SetupMallocs
    /\ ~SetupMallocs[setupStep].checked
    /\ \E ok \in BOOLEAN :
         failedAllocs' = IF ok THEN failedAllocs
                         ELSE failedAllocs \cup {SetupMallocs[setupStep].buffer}
    /\ IF setupStep = Len(SetupMallocs)
       THEN setupPc' = "run" /\ setupStep' = 1
       ELSE setupPc' = setupPc /\ setupStep' = setupStep + 1
    /\ UNCHANGED <<deviceError, diagnostics, unallocatedUse>>

\* one stage after the allocations.  A kernel that dereferences a buffer that was
\* never allocated may or may not fault; a fault stays pending on the device until
\* a checked cudaDeviceSynchronize reports it.  The result of cudaMemcpy is dropped.
RunStage ==
    /\ setupPc = "run"
    /\ setupStep \in DOMAIN SetupStages
    /\ LET st      == SetupStages[setupStep]
           missing == st.buffers \cap failedAllocs
       IN  /\ unallocatedUse' = unallocatedUse \cup { <<st.stage, b>> : b \in missing }
           /\ \E fault \in (IF st.kernel /\ missing # {} THEN BOOLEAN ELSE {FALSE}) :
                /\ deviceError' = (deviceError \/ fault)
                /\ IF st.line # 0 /\ deviceError'
                   THEN /\ diagnostics' = Append(diagnostics, cudaAssert(st.line))
                        /\ setupPc' = "exited"
                        /\ UNCHANGED setupStep
                   ELSE /\ UNCHANGED diagnostics
                        /\ IF setupStep = Len(SetupStages)
                           THEN setupPc' = "done" /\ UNCHANGED setupStep
                           ELSE setupPc' = setupPc /\ setupStep' = setupStep + 1
    /\ UNCHANGED failedAllocs

(***************************************************************************)
(* exclusive_scan on long arrays: the launches and the guard of their      *)
(* threads, without the data                                               *)
(***************************************************************************)
\* every length up to two blocks of threads and one, and the lengths at, next
\* to and between the powers of two of the int range
LargeLengths ==
    (1 .. (2 * threadsPerBlock + 1))
    \cup { n \in UNION { { Pow2(k) - 1, Pow2(k), Pow2(k) + 1, Pow2(k) + (Pow2(k) \div 2) } :
                          k \in 0 .. MaxLog2 } : n >= 1 /\ n <= Pow2(MaxLog2) }

\* the threads <<twod1, index, i>> of the launch of a level whose product
\* index*twod1 is not below length and whose int i = index*twod1 passes
\* if (i < length); they are threads of the last block
StrayWorkers(length, twod1) ==
    LET blocks == ScanBlocks(length, twod1)
        first  == (length + twod1 - 1) \div twod1
    IN  { <<twod1, index, MulInt32(index, twod1)>> :
            index \in { x \in first .. (blocks * threadsPerBlock - 1) :
                          MulInt32(x, twod1) < length } }

LaunchIdle ==
    /\ launchPc = "idle"
    /\ launchN = 0
    /\ launchLength = 0
    /\ launchTwod = 0
    /\ strayWorkers = {}

\* exclusive_scan is entered with a length of LargeLengths
LaunchInit ==
    /\ launchPc = "start"
    /\ launchN \in LargeLengths
    /\ launchLength = launchN
    /\ launchTwod = 0
    /\ strayWorkers = {}

\* length = nextPow2(length), entry of the up-sweep loop
LaunchRound ==
    /\ launchPc = "start"
    /\ launchLength' = nextPow2(launchLength)
    /\ launchTwod' = 1
    /\ launchPc' = "upsweep"
    /\ UNCHANGED <<launchN, strayWorkers>>

\* for (twod = 1; twod < length; twod *= 2) upsweep_kernel<<<blocks, 512>>>
LaunchUpsweep ==
    /\ launchPc = "upsweep"
    /\ launchTwod < launchLength
    /\ strayWorkers' = StrayWorkers(launchLength, 2 * launchTwod)
    /\ launchTwod' = 2 * launchTwod
    /\ UNCHANGED <<launchPc, launchN, launchLength>>

\* loop exit, cudaMemset, entry of the down-sweep loop with twod = length/2
LaunchMemset ==
    /\ launchPc = "upsweep"
    /\ ~(launchTwod < launchLength)
    /\ launchTwod' = launchLength \div 2
    /\ launchPc' = IF launchLength \div 2 >= 1 THEN "downsweep" ELSE "done"
    /\ strayWorkers' = {}
    /\ UNCHANGED <<launchN, launchLength>>

\* for (twod = length/2; twod >= 1; twod /= 2) downsweep_kernel<<<blocks, 512>>>
LaunchDownsweep ==
    /\ launchPc = "downsweep"
    /\ launchTwod >= 1
    /\ strayWorkers' = StrayWorkers(launchLength, 2 * launchTwod)
    /\ launchTwod' = launchTwod \div 2
    /\ launchPc' = IF launchTwod \div 2 >= 1 THEN "downsweep" ELSE "done"
    /\ UNCHANGED <<launchN, launchLength>>

InitScan == ScanInit /\ PeakIdle /\ RenderIdle /\ SetupIdle /\ LaunchIdle
NextScan ==
    \/ UpsweepLaunch /\ UNCHANGED <<peakVars, renderVars, setupVars, launchVars>>
    \/ RootMemset /\ UNCHANGED <<peakVars, renderVars, setupVars, launchVars>>
    \/ DownsweepLaunch /\ UNCHANGED <<peakVars, renderVars, setupVars, launchVars>>

SpecScan == InitScan /\ [][NextScan]_vars

InitPeaks == PeakInit /\ ScanIdle /\ RenderIdle /\ SetupIdle /\ LaunchIdle
NextPeaks ==
    \/ FindPeakLaunch /\ UNCHANGED <<scanVars, renderVars, setupVars, launchVars>>
    \/ PeakMemset /\ UNCHANGED <<scanVars, renderVars, setupVars, launchVars>>
    \/ PeakScan /\ UNCHANGED <<scanVars, renderVars, setupVars, launchVars>>
    \/ MakeListLaunch /\ UNCHANGED <<scanVars, renderVars, setupVars, launchVars>>
    \/ PeakReturn /\ UNCHANGED <<scanVars, renderVars, setupVars, launchVars>>

SpecPeaks == InitPeaks /\ [][NextPeaks]_vars

InitRender == RenderInit /\ ScanIdle /\ PeakIdle /\ SetupIdle /\ LaunchIdle
NextRender ==
    \/ ClearImage /\ UNCHANGED <<scanVars, peakVars, setupVars, launchVars>>
    \/ AdvanceAnimation /\ UNCHANGED <<scanVars, peakVars, setupVars, launchVars>>
    \/ MarkLaunch /\ UNCHANGED <<scanVars, peakVars, setupVars, launchVars>>
    \/ ScanLaunch /\ UNCHANGED <<scanVars, peakVars, setupVars, launchVars>>
    \/ ListLaunch /\ UNCHANGED <<scanVars, peakVars, setupVars, launchVars>>
    \/ RenderLaunch /\ UNCHANGED <<scanVars, peakVars, setupVars, launchVars>>

SpecRender == InitRender /\ [][NextRender]_vars

InitSetup == SetupStart /\ ScanIdle /\ PeakIdle /\ RenderIdle /\ LaunchIdle
NextSetup ==
    \/ MallocChecked /\ UNCHANGED <<scanVars, peakVars, renderVars, launchVars>>
    \/ MallocUnchecked /\ UNCHANGED <<scanVars, peakVars, renderVars, launchVars>>
    \/ RunStage /\ UNCHANGED <<scanVars, peakVars, renderVars, launchVars>>

SpecSetup == InitSetup /\ [][NextSetup]_vars

InitLaunch == LaunchInit /\ ScanIdle /\ PeakIdle /\ RenderIdle /\ SetupIdle
NextLaunch ==
    \/ LaunchRound /\ UNCHANGED <<scanVars, peakVars, renderVars, setupVars>>
    \/ LaunchUpsweep /\ UNCHANGED <<scanVars, peakVars, renderVars, setupVars>>
    \/ LaunchMemset /\ UNCHANGED <<scanVars, peakVars, renderVars, setupVars>>
    \/ LaunchDownsweep /\ UNCHANGED <<scanVars, peakVars, renderVars, setupVars>>

SpecLaunch == InitLaunch /\ [][NextLaunch]_vars

(***************************************************************************)
(* Properties of exclusive_scan                                            *)
(***************************************************************************)
\* sum of a[0..i-1]
RECURSIVE SumBelow(_, _)
SumBelow(a, i) == IF i <= 0 THEN 0 ELSE a[i - 1] + SumBelow(a, i - 1)

\* C1: after exclusive_scan(data, n) the buffer holds, at every index i < n,
\* the sum of the input elements before i (in place, for every n >= 0).
C1_ExclusiveScan ==
    scanPc = "done" =>
        \A i \in DOMAIN inarray : device_data[i] = SumBelow(inarray, i)

\* a finished scan of a length that is not a power of two, with a negative and
\* a positive prefix sum
C1_Witness ==
    /\ scanPc = "done"
    /\ ScanLen = 5
    /\ device_data[4] = 2
    /\ device_data[1] = -1

\* the first n elements of the buffer cudaScan scans when the elements
\* n..nextPow2(n)-1 of its allocation hold pad
ScanWithPadding(in, n, pad) ==
    LET rounded_length == nextPow2(n)
        buf == [k \in 0 .. (rounded_length - 1) |-> IF k < n THEN in[k] ELSE pad[k]]
        res == exclusive_scan(buf, n)
    IN  [k \in 0 .. (n - 1) |-> res[k]]

\* C17: the first n outputs of the scan are those of a scan of the same n
\* elements with any other padding in the elements n..nextPow2(n)-1.
C17_PaddingIndependent ==
    scanPc = "done" =>
        \A pad \in [ScanLen .. (ScanL - 1) -> UninitInts] :
            [i \in DOMAIN inarray |-> device_data[i]] = ScanWithPadding(inarray, ScanLen, pad)

\* a finished scan of 5 elements whose 3 padding elements all held 7: the
\* padding is in the sum the last element of the buffer holds
C17_Witness ==
    /\ scanPc = "done"
    /\ ScanLen = 5
    /\ device_data[7] = SumBelow(inarray, 5) + 14
    /\ device_data[4] = SumBelow(inarray, 4)

\* C18: for every i with 0 <= i < n-1, scan[i+1] - scan[i] = a[i].
C18_Differences ==
    scanPc = "done" =>
        \A i \in 0 .. (ScanLen - 2) : device_data[i + 1] - device_data[i] = inarray[i]

\* a finished scan of 4 elements with a rising and a falling difference
C18_Witness ==
    /\ scanPc = "done"
    /\ ScanLen = 4
    /\ device_data[1] - device_data[0] = 1
    /\ device_data[3] - device_data[2] = -1

(***************************************************************************)
(* Properties of find_peaks                                                *)
(***************************************************************************)
\* the indices the definition of a peak selects
TruePeaks ==
    { i \in 1 .. (peakLength - 2) :
        device_input[i - 1] < device_input[i] /\ device_input[i] > device_input[i + 1] }

\* the element of S with exactly k smaller elements
KthSmallest(S, k) == CHOOSE x \in S : Cardinality({ y \in S : y < x }) = k

\* C6: after find_peaks the first count slots of the output hold the peak
\* indices 1 <= i <= len-2, ascending and without duplicates.
C6_PeakList ==
    peakPc = "done" =>
        \A k \in 0 .. (Cardinality(TruePeaks) - 1) :
            device_output[k] = KthSmallest(TruePeaks, k)

\* C7: the value find_peaks returns is the number of peak indices in 1..len-2.
C7_PeakCount ==
    peakPc = "done" => ans = Cardinality(TruePeaks)

\* find_peaks returned 2 for an array of 5 elements
C7_Witness ==
    /\ peakPc = "done"
    /\ peakLength = 5
    /\ TruePeaks = {1, 3}
    /\ ans = 2

\* C8: every index written into the output list satisfies 1 <= i <= len-2,
\* whatever the array and the padding beyond len hold.
C8_NoEndIndex ==
    \A w \in listWrites :
        w[1] \in DOMAIN device_output => (1 <= w[2] /\ w[2] <= peakLength - 2)

(***************************************************************************)
(* Properties of the renderer                                              *)
(***************************************************************************)
Tiles == 0 .. (numBlocks - 1)
Circles == 0 .. (numberOfCircles - 1)
Pixels == 0 .. (ImageWidth * ImageHeight - 1)
PixelTile(p) == RenderBlockId(p % ImageWidth, p \div ImageWidth)

\* the circles marked for tile t
HitSet(t) == { c \in Circles : hitCircles[t * numberOfCircles + c] = 1 }

\* the number of entries of row t before the first negative one
LiveLength(t) ==
    LET neg == { i \in Circles : hitCirclesList[t * numberOfCircles + i] < 0 }
    IN  IF neg = {} THEN numberOfCircles
        ELSE CHOOSE i \in neg : \A j \in neg : i <= j

AfterMark == rPc \in {"scan", "list", "render", "end"}
AfterScan == rPc \in {"list", "render", "end"}
AfterList == rPc \in {"render", "end"}

\* C2: after list-build the entries of every tile row before the first
\* negative entry are, in ascending order, exactly the circles marked for the tile.
C2_LiveEntries ==
    AfterList =>
        \A t \in Tiles :
            /\ LiveLength(t) = Cardinality(HitSet(t))
            /\ \A k \in 0 .. (LiveLength(t) - 1) :
                 hitCirclesList[t * numberOfCircles + k] = KthSmallest(HitSet(t), k)

\* a tile whose list skips a circle that lies between two listed ones
C2_Witness ==
    /\ rPc = "render"
    /\ numberOfCircles = 3
    /\ \E t \in Tiles :
         /\ HitSet(t) = {0, 2}
         /\ hitCirclesList[t * 3] = 0
         /\ hitCirclesList[t * 3 + 1] = 2

\* circle c contributes to pixel p
Covers(c, p) == Contributes(position, radius, c, p % ImageWidth, p \div ImageWidth)

\* the over-operator folded over the circles c, c+1, ... of the pixel's tile
\* that cover the pixel, from the colour cur
RECURSIVE OverFold(_, _, _)
OverFold(p, c, cur) ==
    IF c >= numberOfCircles THEN cur
    ELSE IF c \in HitSet(PixelTile(p)) /\ Covers(c, p)
         THEN OverFold(p, c + 1, Composite(color[c], cur))
         ELSE OverFold(p, c + 1, cur)

\* C3: every pixel stored by the render stage is the over-operator folded, in
\* ascending circle order, over the covering circles of its tile list, starting
\* from the value the pixel had before.
C3_SequentialOver ==
    rPc = "end" => \A p \in Pixels : imageData[p] = OverFold(p, 0, imageBefore[p])

\* C4: after the mark stage every circle that covers a pixel is marked for the
\* tile the renderer assigns to that pixel.
C4_NoPixelMissed ==
    AfterMark =>
        \A c \in Circles : \A p \in Pixels :
            Covers(c, p) => hitCircles[PixelTile(p) * numberOfCircles + c] = 1

\* a circle that covers pixels of two different tiles
C4_Witness ==
    /\ rPc = "scan"
    /\ \E c \in Circles : \E p \in Pixels, q \in Pixels :
         /\ PixelTile(p) # PixelTile(q)
         /\ Covers(c, p) /\ Covers(c, q)
         /\ hitCircles[PixelTile(p) * numberOfCircles + c] = 1
         /\ hitCircles[PixelTile(q) * numberOfCircles + c] = 1

\* C5: a pixel no circle contributes to holds after render the value it had before.
C5_UntouchedKept ==
    rPc = "end" =>
        \A p \in Pixels :
            (\A c \in HitSet(PixelTile(p)) : ~Covers(c, p)) => imageData[p] = imageBefore[p]

\* the slots of row t that hold the sentinel
SentinelSlots(t) == { i \in Circles : hitCirclesList[t * numberOfCircles + i] = -1 }

\* C9 as stated: after list-build the sentinel occurs exactly once in every
\* tile row, at the slot whose index is the tile's hit count.
C9_SentinelOnce ==
    (AfterList /\ numberOfCircles >= 1) =>
        \A t \in Tiles : SentinelSlots(t) = { Cardinality(HitSet(t)) }

\* C9 amended: after list-build, a row with fewer than N hits holds the
\* sentinel at the slot of its hit count and no negative entry before it; a
\* row with N hits holds no negative entry.
C9_SentinelAtCount ==
    AfterList =>
        \A t \in Tiles :
            LET count == Cardinality(HitSet(t)) IN
            /\ count < numberOfCircles => hitCirclesList[t * numberOfCircles + count] = -1
            /\ \A i \in 0 .. (count - 1) : hitCirclesList[t * numberOfCircles + i] >= 0

\* a row with one hit whose later slots hold further sentinels
C9_Witness ==
    /\ rPc = "render"
    /\ numberOfCircles = 3
    /\ \E t \in Tiles :
         /\ HitSet(t) = {2}
         /\ SentinelSlots(t) = {1, 2}

\* C10: after the scan stage prefixes[t*N+c] is the number of circles below c
\* marked for tile t, for N below, equal to and above SCAN_BLOCK_DIM.
C10_ExclusivePrefix ==
    AfterScan =>
        \A t \in Tiles : \A c \in Circles :
            prefixes[t * numberOfCircles + c] = Cardinality({ d \in HitSet(t) : d < c })

\* a row longer than SCAN_BLOCK_DIM whose second chunk carries the hits of the first
C10_Witness ==
    /\ rPc = "list"
    /\ numberOfCircles > SCAN_BLOCK_DIM
    /\ \E t \in Tiles :
         /\ Cardinality({ d \in HitSet(t) : d < SCAN_BLOCK_DIM }) >= 1
         /\ prefixes[t * numberOfCircles + SCAN_BLOCK_DIM] >= 1

(***************************************************************************)
(* Properties of the mark stage                                            *)
(***************************************************************************)
\* the bounding box of circle c: centre -/+ radius
CircleL(c) == position[c][1] - radius[c]
CircleR(c) == position[c][1] + radius[c]
CircleB(c) == position[c][2] - radius[c]
CircleT(c) == position[c][2] + radius[c]

Min(a, b) == IF a <= b THEN a ELSE b

\* the region tile t owns, [tileSize*tx, tileSize*(tx+1)) x [tileSize*ty, tileSize*(ty+1))
\* clamped to the image, in normalized coordinates
RegionL(t) == 2 * ImageHeight * TileSize * (t % blocksXSize)
RegionR(t) == 2 * ImageHeight * Min(TileSize * ((t % blocksXSize) + 1), ImageWidth)
RegionB(t) == 2 * ImageWidth * TileSize * (t \div blocksXSize)
RegionT(t) == 2 * ImageWidth * Min(TileSize * ((t \div blocksXSize) + 1), ImageHeight)

\* the box from the centre of the tile's first pixel to the centre of the
\* first pixel of the next tile, in normalized coordinates
CentreL(t) == ImageHeight * (2 * TileSize * (t % blocksXSize) + 1)
CentreR(t) == ImageHeight * (2 * TileSize * ((t % blocksXSize) + 1) + 1)
CentreB(t) == ImageWidth * (2 * TileSize * (t \div blocksXSize) + 1)
CentreT(t) == ImageWidth * (2 * TileSize * ((t \div blocksXSize) + 1) + 1)

\* the circle's bounding box and the tile's region share a point (boundaries included)
OverlapsRegion(c, t) ==
    /\ CircleR(c) >= RegionL(t) /\ CircleL(c) <= RegionR(t)
    /\ CircleT(c) >= RegionB(t) /\ CircleB(c) <= RegionT(t)

\* the circle's bounding box and the tile's pixel-centre box share a point
OverlapsCentreBox(c, t) ==
    /\ CircleR(c) >= CentreL(t) /\ CircleL(c) <= CentreR(t)
    /\ CircleT(c) >= CentreB(t) /\ CircleB(c) <= CentreT(t)

\* C11 as stated: after the mark stage hitCircles[t*N+c] is 1 if the circle's
\* bounding box overlaps the bounding box of the region tile t owns, and 0
\* otherwise.
C11_RegionOverlap ==
    AfterMark =>
        \A t \in Tiles : \A c \in Circles :
            hitCircles[t * numberOfCircles + c] = IF OverlapsRegion(c, t) THEN 1 ELSE 0

\* C11 amended: after the mark stage hitCircles[t*N+c] is 1 if the circle's
\* bounding box overlaps the tile's box shifted by half a pixel (from the
\* centre of its first pixel to the centre of the first pixel of the next
\* tile, not clamped to the image), and 0 otherwise.
C11_CentreBoxOverlap ==
    AfterMark =>
        \A t \in Tiles : \A c \in Circles :
            hitCircles[t * numberOfCircles + c] = IF OverlapsCentreBox(c, t) THEN 1 ELSE 0

\* a second frame in which the strided loop wrote a 0 and a 1 into one row
C11_Witness ==
    /\ rPc = "scan"
    /\ frame = 2
    /\ numberOfCircles > blockDimX
    /\ \E t \in Tiles :
         /\ hitCircles[t * numberOfCircles + numberOfCircles - 1] = 0
         /\ hitCircles[t * numberOfCircles] = 1

\* the circle's bounding box lies in the region of tile t
InsideRegion(c, t) ==
    /\ RegionL(t) <= CircleL(c) /\ CircleR(c) < RegionR(t)
    /\ RegionB(t) <= CircleB(c) /\ CircleT(c) < RegionT(t)

\* the circle's bounding box lies in the image
InsideImage(c) ==
    /\ 0 <= CircleL(c) /\ CircleR(c) <= CoordDen
    /\ 0 <= CircleB(c) /\ CircleT(c) <= CoordDen

\* the tiles circle c is marked for
MarkedTiles(c) == { t \in Tiles : hitCircles[t * numberOfCircles + c] = 1 }

\* C12 as stated: a circle inside the region of one tile is marked for that
\* tile only, a circle is marked for every tile whose region its bounding box
\* overlaps, and a circle inside the image is marked for at least one tile.
C12_InsideOneTile ==
    AfterMark =>
        \A c \in Circles :
            /\ \A t \in Tiles : InsideRegion(c, t) => MarkedTiles(c) = {t}
            /\ \A t \in Tiles : OverlapsRegion(c, t) => t \in MarkedTiles(c)
            /\ InsideImage(c) => MarkedTiles(c) # {}

\* the circle's bounding box lies strictly inside the pixel-centre box of tile t
InsideCentreBox(c, t) ==
    /\ CentreL(t) < CircleL(c) /\ CircleR(c) < CentreR(t)
    /\ CentreB(t) < CircleB(c) /\ CircleT(c) < CentreT(t)

\* C12 amended: a circle whose bounding box lies strictly inside the
\* pixel-centre box of one tile is marked for that tile only, a circle is marked
\* for every tile whose pixel-centre box its bounding box overlaps, and a circle
\* whose bounding box holds the centre of a pixel is marked for at least one tile.
C12_InsideOneCentreBox ==
    AfterMark =>
        \A c \in Circles :
            /\ \A t \in Tiles : InsideCentreBox(c, t) => MarkedTiles(c) = {t}
            /\ \A t \in Tiles : OverlapsCentreBox(c, t) => t \in MarkedTiles(c)
            /\ (\E p \in Pixels :
                   /\ CircleL(c) <= PixelCenterX(p % ImageWidth)
                   /\ PixelCenterX(p % ImageWidth) <= CircleR(c)
                   /\ CircleB(c) <= PixelCenterY(p \div ImageWidth)
                   /\ PixelCenterY(p \div ImageWidth) <= CircleT(c))
               => MarkedTiles(c) # {}

\* one circle marked for a single tile and another marked for several
C12_Witness ==
    /\ rPc = "scan"
    /\ \E c \in Circles, d \in Circles :
         /\ \E t \in Tiles : InsideCentreBox(c, t) /\ MarkedTiles(c) = {t}
         /\ Cardinality(MarkedTiles(d)) >= 2

(***************************************************************************)
(* Properties of render as a whole                                         *)
(***************************************************************************)
\* a step of render: the stage that runs, the stage that follows it and the
\* buffer it writes
StageStep ==
    /\ rPc = "mark" => rPc' = "scan"
    /\ rPc = "scan" => rPc' = "list"
    /\ rPc = "list" => rPc' = "render"
    /\ rPc = "render" => rPc' = "end"
    /\ rPc' = "scan" => rPc = "mark"
    /\ rPc' = "list" => rPc = "scan"
    /\ rPc' = "render" => rPc = "list"
    /\ hitCircles' # hitCircles => rPc = "mark"
    /\ prefixes' # prefixes => rPc = "scan"
    /\ hitCirclesList' # hitCirclesList => rPc = "list"
    /\ imageData' # imageData => rPc \in {"start", "end", "render"}

\* C13: in every render call the stages run in the order mark, scan,
\* list-build, render, each stage starts only when the stage before it is
\* over, and a stage is the only one that writes its buffer.
C13_StageOrder == [][StageStep]_vars

\* the second render call is over and has changed a pixel
C13_Witness ==
    /\ rPc = "end"
    /\ frame = 2
    /\ imageData # imageBefore
    /\ \E t \in Tiles : HitSet(t) # {} /\ LiveLength(t) >= 1

\* no two of the writes <<block, thread, iteration, address>> of W go to the
\* same address
DisjointWriters(W) == \A v \in W, w \in W : v[4] = w[4] => v = w

\* the addresses of row t of a numTiles x N buffer
Row(t) == (t * numberOfCircles) .. (t * numberOfCircles + numberOfCircles - 1)

\* C14: within each stage of render no two workers write the same address:
\* one (tile, circle) entry per worker iteration of the mark and scan stages,
\* inside the row of the worker's tile; distinct slots of the tile's row for
\* the live entries and the sentinel of list-build; one pixel per render worker.
C14_DisjointWrites ==
    /\ rPc = "mark" =>
         /\ DisjointWriters(MarkWriters(numberOfCircles))
         /\ \A w \in MarkWriters(numberOfCircles) : w[4] \in Row(w[1])
    /\ rPc = "scan" =>
         /\ DisjointWriters(Scan2Writers(numberOfCircles))
         /\ \A w \in Scan2Writers(numberOfCircles) : w[4] \in Row(w[1])
    /\ rPc = "list" =>
         \A t \in Tiles :
             LET writes == MakeListsWrites(hitCircles, prefixes, numberOfCircles, t)
             IN  /\ \A v \in writes, w \in writes : v[1] = w[1] => v = w
                 /\ \A w \in writes : w[1] \in Row(t)
    /\ rPc = "render" =>
         \A v \in RenderWriters, w \in RenderWriters : v[3] = w[3] => v = w

\* a list launch in which the worker of circle N-1 writes its circle and the
\* sentinel, and a worker of the second strided iteration writes too
C14_Witness ==
    /\ rPc = "list"
    /\ numberOfCircles > blockDimX
    /\ \E t \in Tiles :
         LET writes == MakeListsWrites(hitCircles, prefixes, numberOfCircles, t)
         IN  /\ Cardinality(writes) = numberOfCircles
             /\ \E w \in writes : w[2] = -1
             /\ \E w \in writes : w[2] = numberOfCircles - 1

\* C15: in every render call every pixel of the image is stored to by exactly
\* one worker of the render launch and no worker stores outside the image
\* buffer, for an image that is not a multiple of the launch block.
C15_EachPixelOnce ==
    rPc \in {"render", "end"} =>
        /\ \A p \in Pixels : Cardinality({ w \in RenderWriters : w[3] = p }) = 1
        /\ \A w \in RenderWriters : w[3] \in DOMAIN imageData

\* a render launch with idle threads (the image is smaller than the launch
\* block) that has stored a blended colour
C15_Witness ==
    /\ rPc = "end"
    /\ ImageWidth % threadBlockSize # 0
    /\ Cardinality(RenderThreads) > Cardinality(RenderWriters)
    /\ \E p \in Pixels : imageData[p] # imageBefore[p] /\ imageData[p] # GarbageColor

\* the circles of the pixel's tile list that contribute to pixel p
Contributors(p) == { c \in HitSet(PixelTile(p)) : Covers(c, p) }

\* C16: after k >= 1 circles of alpha 0.5 contributed to a pixel cleared to
\* alpha 1, the stored alpha is 1 + 0.5 * k (the sum is not clamped).
C16_AlphaAccumulates ==
    rPc = "end" =>
        \A p \in Pixels :
            (Contributors(p) # {} /\ imageBefore[p][4] = ColorScale) =>
                imageData[p][4] = ColorScale + Cardinality(Contributors(p)) * (ColorScale \div 2)

\* a pixel three circles contributed to: its alpha is 2.5
C16_Witness ==
    /\ rPc = "end"
    /\ \E p \in Pixels :
         /\ Cardinality(Contributors(p)) = 3
         /\ imageBefore[p][4] = ColorScale
         /\ 2 * imageData[p][4] = 5 * ColorScale

\* C19 as stated: after list-build every slot of a tile's row beyond the live
\* entries holds the sentinel -1, in the first and in every later render call.
C19_TrailingSentinel ==
    AfterList =>
        \A t \in Tiles :
            \A i \in LiveLength(t) .. (numberOfCircles - 1) :
                hitCirclesList[t * numberOfCircles + i] = -1

\* the list launch puts the sentinel right after the live entries of a row
\* and leaves every later slot of the row as it was
ListStep ==
    rPc = "list" =>
        \A t \in Tiles :
            LET count == Cardinality(HitSet(t)) IN
            /\ count < numberOfCircles => hitCirclesList'[t * numberOfCircles + count] = -1
            /\ \A i \in (count + 1) .. (numberOfCircles - 1) :
                 hitCirclesList'[t * numberOfCircles + i] = hitCirclesList[t * numberOfCircles + i]

\* C19 amended: list-build writes the sentinel into the first slot beyond the
\* live entries only; every later slot of the row keeps the value it had
\* before the launch.
C19_TrailingUntouched == [][ListStep]_vars

\* a second frame whose list holds, behind the sentinel, a circle of the first frame
C19_Witness ==
    /\ rPc = "render"
    /\ frame = 2
    /\ numberOfCircles = 3
    /\ \E t \in Tiles :
         /\ Cardinality(HitSet(t)) = 1
         /\ hitCirclesList[t * 3 + 1] = -1
         /\ hitCirclesList[t * 3 + 2] = 2

RECURSIVE Log2(_)
Log2(x) == IF x <= 1 THEN 0 ELSE 1 + Log2(x \div 2)

\* the launches of one sweep, and the stores summed over them
SweepLevels(sweep) == SelectSeq(levelLog, LAMBDA r : r.sweep = sweep)
RECURSIVE SumStores(_)
SumStores(log) == IF log = <<>> THEN 0 ELSE Head(log).stores + SumStores(Tail(log))

\* C22 as stated: for L = nextPow2(n) >= 1 every level with stride twod1, of the
\* up-sweep and of the down-sweep, updates exactly L/twod1 elements; when
\* exclusive_scan is over it has run log2(L) levels of each sweep and the element
\* updates of each sweep sum to L-1.
C22_LevelsAndUpdates ==
    ScanL >= 1 =>
        /\ \A k \in DOMAIN levelLog : levelLog[k].stores = ScanL \div levelLog[k].twod1
        /\ scanPc = "done" =>
             /\ Len(SweepLevels("up")) = Log2(ScanL)
             /\ Len(SweepLevels("down")) = Log2(ScanL)
             /\ SumStores(SweepLevels("up")) = ScanL - 1
             /\ SumStores(SweepLevels("down")) = ScanL - 1

\* C22 amended: for L >= 1 every level with stride twod1 has L/twod1 acting
\* workers; an up-sweep level stores to L/twod1 elements and a down-sweep level
\* to 2*L/twod1 elements (two per worker); when exclusive_scan is over it has
\* run log2(L) levels of each sweep, with L-1 stores in the up-sweep and
\* 2*(L-1) in the down-sweep.
C22_LevelsAndStores ==
    ScanL >= 1 =>
        /\ \A k \in DOMAIN levelLog :
             /\ levelLog[k].workers = ScanL \div levelLog[k].twod1
             /\ levelLog[k].stores = IF levelLog[k].sweep = "up"
                                     THEN ScanL \div levelLog[k].twod1
                                     ELSE 2 * (ScanL \div levelLog[k].twod1)
        /\ scanPc = "done" =>
             /\ Len(SweepLevels("up")) = Log2(ScanL)
             /\ Len(SweepLevels("down")) = Log2(ScanL)
             /\ SumStores(SweepLevels("up")) = ScanL - 1
             /\ SumStores(SweepLevels("down")) = 2 * (ScanL - 1)

\* a scan of 8 elements is over: three levels of each sweep
C22_Witness ==
    /\ scanPc = "done"
    /\ ScanL = 8
    /\ Len(levelLog) = 6
    /\ levelLog[4] = [sweep |-> "down", twod1 |-> 8, workers |-> 1, stores |-> 2]

\* a level is about to be launched
LevelPending ==
    \/ scanPc = "upsweep" /\ twod < ScanL
    \/ scanPc = "downsweep" /\ twod >= 1

\* the launches so far are in loop order: up-sweep strides double from 2, the
\* down-sweep starts from stride L after the up-sweep reached L, and halves
LevelsInOrder ==
    \A k \in DOMAIN levelLog :
        LET r == levelLog[k]
        IN  IF k = 1 THEN r.sweep = "up" /\ r.twod1 = 2
            ELSE LET q == levelLog[k - 1]
                 IN  \/ q.sweep = "up" /\ r.sweep = "up" /\ r.twod1 = 2 * q.twod1
                     \/ q.sweep = "up" /\ r.sweep = "down" /\ q.twod1 = ScanL /\ r.twod1 = ScanL
                     \/ q.sweep = "down" /\ r.sweep = "down" /\ 2 * r.twod1 = q.twod1

\* C23: the workers of a level touch pairwise disjoint elements, the worker at
\* i only i+twod-1 and i+twod1-1; levels are launched one after the other in
\* loop order; and the buffer after the level is the same for every order in
\* which its workers run, namely the one the launch produces.
C23_LevelRaceFree ==
    /\ LevelsInOrder
    /\ LevelPending =>
         LET act   == ActiveI(ScanL, 2 * twod)
             sweep == IF scanPc = "upsweep" THEN "up" ELSE "down"
         IN  /\ \A i, j \in act :
                  i # j => WorkerTouches(i, twod) \cap WorkerTouches(j, twod) = {}
             /\ \A i \in act : WorkerTouches(i, twod) \subseteq DOMAIN device_data
             /\ LevelOrders(sweep, device_data, act, twod)
                  = { IF sweep = "up" THEN upsweep_kernel(device_data, ScanL, twod)
                      ELSE downsweep_kernel(device_data, ScanL, twod) }

\* the last down-sweep level of a scan of 8 elements, with four workers, is
\* about to run on a buffer whose elements are not all equal
C23_Witness ==
    /\ scanPc = "downsweep"
    /\ twod = 1
    /\ ScanL = 8
    /\ Cardinality(ActiveI(ScanL, 2)) = 4
    /\ \E a, b \in DOMAIN device_data : device_data[a] # device_data[b]

\* sum of a[lo..hi]
RECURSIVE RangeSum(_, _, _)
RangeSum(a, lo, hi) == IF hi < lo THEN 0 ELSE a[hi] + RangeSum(a, lo, hi - 1)

\* C24: after the up-sweep level with stride twod1, device_data[i+twod1-1] is
\* the sum of the original elements i..i+twod1-1 for every multiple i of twod1
\* below L; after the last up-sweep level device_data[L-1] is the sum of all L
\* original elements, and it is 0 when the first down-sweep level is launched.
C24_UpsweepPartialSums ==
    /\ (scanPc = "upsweep" /\ levelLog # <<>>) =>
         /\ twod = levelLog[Len(levelLog)].twod1
         /\ \A i \in 0 .. (ScanL - 1) :
              i % twod = 0 => device_data[i + twod - 1] = RangeSum(scanInput, i, i + twod - 1)
    /\ (scanPc = "upsweep" /\ ScanL >= 1 /\ ~(twod < ScanL)) =>
         device_data[ScanL - 1] = RangeSum(scanInput, 0, ScanL - 1)
    /\ (scanPc = "downsweep" /\ SweepLevels("down") = <<>>) =>
         device_data[ScanL - 1] = 0

\* the up-sweep of 8 elements with a non-zero total is over and the root has
\* been zeroed; the left half still holds its partial sum
C24_Witness ==
    /\ scanPc = "downsweep"
    /\ SweepLevels("down") = <<>>
    /\ ScanL = 8
    /\ Len(levelLog) = 3
    /\ RangeSum(scanInput, 0, 7) # 0
    /\ device_data[3] = RangeSum(scanInput, 0, 3)
    /\ device_data[3] # 0

(***************************************************************************)
(* Properties of setup                                                     *)
(***************************************************************************)
\* C21: once a device allocation of setup has failed the process has ended
\* with a diagnostic line, and no stage has run with a buffer that was never
\* allocated.
C21_AllocationFailureFatal ==
    /\ failedAllocs # {} => (setupPc = "exited" /\ diagnostics # <<>>)
    /\ unallocatedUse = {}

(***************************************************************************)
(* Properties of the tile pipeline across group sizes and frames           *)
(***************************************************************************)
\* C25: the mark stage writes hitCircles[t*N + c] exactly once for every
\* tile t and every c in 0..N-1, by a worker of group t, and writes nothing
\* else, for N below, equal to and above the group size; after the launch
\* every entry of the buffer is a freshly written 0 or 1.
C25_MarkWritesEachEntryOnce ==
    /\ rPc = "mark" =>
         LET W == MarkWriters(numberOfCircles)
         IN  /\ \A t \in Tiles, c \in Circles :
                  Cardinality({ w \in W : w[4] = t * numberOfCircles + c }) = 1
             /\ \A w \in W :
                  /\ w[2] + w[3] * blockDimX \in Circles
                  /\ w[4] = w[1] * numberOfCircles + w[2] + w[3] * blockDimX
                  /\ w[4] \in DOMAIN hitCircles
             /\ Cardinality(W) = numBlocks * numberOfCircles
    /\ rPc = "scan" =>
         /\ DOMAIN hitCircles = 0 .. (numBlocks * numberOfCircles - 1)
         /\ \A k \in DOMAIN hitCircles : hitCircles[k] \in {0, 1}

\* a mark launch of the first frame with more circles than workers in a group
\* is over: the entry of the last circle, written in a second iteration, is a hit
C25_Witness ==
    /\ rPc = "scan"
    /\ frame = 1
    /\ numberOfCircles > blockDimX
    /\ \E t \in Tiles : hitCircles[t * numberOfCircles + numberOfCircles - 1] = 1

\* C26: for every pixel of the image the tile id the renderer computes is one
\* of 0..numTiles-1, the box the mark-stage group of that id tests holds the
\* pixel's centre, and after the mark launch the row of that id holds the marks
\* of just that box, also when the image is not a whole number of tiles wide
\* or high.
C26_PixelTileIsMarkGroup ==
    rPc = "scan" =>
        \A p \in Pixels :
            LET id == PixelTile(p)
                cx == PixelCenterX(p % ImageWidth)
                cy == PixelCenterY(p \div ImageWidth)
            IN  /\ id \in Tiles
                /\ BoxL(id) <= cx /\ cx <= BoxR(id)
                /\ BoxB(id) <= cy /\ cy <= BoxT(id)
                /\ \A c \in Circles :
                     hitCircles[id * numberOfCircles + c]
                       = circleInBox(position[c][1], position[c][2], radius[c],
                                     BoxL(id), BoxR(id), BoxT(id), BoxB(id))

\* the mark launch is over and a pixel of the last tile, which the image edge
\* cuts, lies in a circle marked in that tile's row
C26_Witness ==
    /\ rPc = "scan"
    /\ blocksXSize * blockSize > ImageWidth
    /\ \E p \in Pixels :
         /\ PixelTile(p) = numBlocks - 1
         /\ \E c \in HitSet(PixelTile(p)) :
              Contributes(position, radius, c, p % ImageWidth, p \div ImageWidth)

\* the circles the mark test accepts for tile t on the circle data as they are now
CurrentHits(t) ==
    { c \in Circles : circleInBox(position[c][1], position[c][2], radius[c],
                                  BoxL(t), BoxR(t), BoxT(t), BoxB(t)) = 1 }

\* the elements of a set of numbers in ascending order
Ascending(S) == [k \in 1 .. Cardinality(S) |-> KthSmallest(S, k - 1)]

\* C27: in every render call, the first and the later ones, the circle sequence
\* each pixel worker of the render launch consumes from its tile row is the
\* ascending list of the circles that hit the tile with the circle data of
\* that call; nothing left in the buffers by an earlier call or by the
\* allocation is consumed.
C27_ConsumesCurrentHits ==
    rPc = "render" =>
        \A p \in Pixels :
            ConsumedCircles(hitCirclesList, numberOfCircles, PixelTile(p), 0)
              = Ascending(CurrentHits(PixelTile(p)))

\* the render launch of a second call finds, behind the sentinel of a tile row,
\* a circle of the first call that does not hit the tile any more
C27_Witness ==
    /\ rPc = "render"
    /\ frame = 2
    /\ \E p \in Pixels :
         LET t == PixelTile(p)
             n == Len(ConsumedCircles(hitCirclesList, numberOfCircles, t, 0))
         IN  /\ n >= 1
             /\ n + 1 < numberOfCircles
             /\ hitCirclesList[t * numberOfCircles + n + 1] \in Circles \ CurrentHits(t)

\* C28: the list-build group of tile t writes only slots t*N .. t*N+N-1 of
\* hitCirclesList: none of its writes, entry or sentinel, lands in the row of
\* another tile or outside the buffer; when all N circles hit the tile it
\* writes the N entries of the row and no sentinel.
C28_ListWritesStayInRow ==
    rPc = "list" =>
        \A t \in Tiles :
            LET writes == MakeListsWrites(hitCircles, prefixes, numberOfCircles, t)
                slots  == { w[1] : w \in writes }
            IN  /\ \A k \in slots :
                     /\ t * numberOfCircles <= k
                     /\ k <= t * numberOfCircles + numberOfCircles - 1
                     /\ k \in DOMAIN hitCirclesList
                /\ \A u \in Tiles \ {t} : slots \cap Row(u) = {}
                /\ HitSet(t) = Circles =>
                     /\ slots = Row(t)
                     /\ \A w \in writes : w[2] >= 0

\* all three circles hit the last tile and list-build has filled its row,
\* the last row of the buffer, with them
C28_Witness ==
    /\ rPc = "render"
    /\ numberOfCircles = 3
    /\ HitSet(numBlocks - 1) = Circles
    /\ \A c \in Circles : hitCirclesList[(numBlocks - 1) * 3 + c] = c

(***************************************************************************)
(* Properties of the workers of the scan stage                             *)
(***************************************************************************)
ScanWorkers == 0 .. (SCAN_BLOCK_DIM - 1)

\* the chunk iterations the claim counts: ceil(N / SCAN_BLOCK_DIM), one when N = 0
ChunkIterations ==
    IF numberOfCircles = 0 THEN 1
    ELSE (numberOfCircles + SCAN_BLOCK_DIM - 1) \div SCAN_BLOCK_DIM

\* the barriers and the scan call of a trace, as <<operation, line, iteration>>
SyncEvents(trace) ==
    LET sel == SelectSeq(trace, LAMBDA e : e.op \in {"barrier", "scan"})
    IN  [k \in DOMAIN sel |-> <<sel[k].op, sel[k].line, sel[k].iter>>]

\* barrier, scan call, barrier for each of the iterations 0 .. n-1
RECURSIVE SyncOfIterations(_, _)
SyncOfIterations(j, n) ==
    IF j >= n THEN << >>
    ELSE << <<"barrier", 833, j>>, <<"scan", 834, j>>, <<"barrier", 835, j>> >>
         \o SyncOfIterations(j + 1, n)

\* C29: every worker of a scan group runs the same number of chunk iterations,
\* ceil(N/SCAN_BLOCK_DIM) or one when N = 0, and in each of them reaches the
\* first barrier, the shared-memory scan and the second barrier, whether or
\* not its circle index is below N: the barriers of the workers of a group
\* match one to one.
C29_UniformBarriers ==
    rPc \in {"scan", "list"} =>
        \A t \in Tiles : \A tid \in ScanWorkers :
            SyncEvents(Scan2WorkerEvents(tid, numberOfCircles, t))
              = SyncOfIterations(0, ChunkIterations)

\* a scan launch with more circles than workers, not a multiple of the group
\* size, is over: the last worker had no circle in the second iteration and
\* the row holds prefixes of both chunks
C29_Witness ==
    /\ rPc = "list"
    /\ numberOfCircles > SCAN_BLOCK_DIM
    /\ numberOfCircles % SCAN_BLOCK_DIM # 0
    /\ (SCAN_BLOCK_DIM - 1) + (ChunkIterations - 1) * SCAN_BLOCK_DIM >= numberOfCircles
    /\ \E t \in Tiles : prefixes[t * numberOfCircles + numberOfCircles - 1] = numberOfCircles - 1

\* the number of barriers worker events 1 .. k-1 hold
BarriersBefore(trace, k) ==
    Cardinality({ m \in 1 .. (k - 1) : trace[m].op = "barrier" })

\* C30: in chunk j >= 1 every read of the carry element prefixes[t*N +
\* j*SCAN_BLOCK_DIM - 1] comes after every write of that element: the element
\* is written by the last worker in chunk j-1 only, and more barriers lie
\* before the read than before any of the writes.
C30_CarryReadAfterWrite ==
    rPc \in {"scan", "list"} =>
        \A t \in Tiles : \A tid \in ScanWorkers :
            LET trace == Scan2WorkerEvents(tid, numberOfCircles, t)
            IN  \A k \in DOMAIN trace :
                    (trace[k].op = "read prefixes") =>
                        LET j     == trace[k].iter
                            carry == trace[k].addr
                            last  == Scan2WorkerEvents(SCAN_BLOCK_DIM - 1, numberOfCircles, t)
                        IN  /\ j >= 1
                            /\ carry = t * numberOfCircles + j * SCAN_BLOCK_DIM - 1
                            /\ \E m \in DOMAIN last :
                                 /\ last[m].op = "write prefixes"
                                 /\ last[m].addr = carry
                                 /\ last[m].iter = j - 1
                            /\ \A w \in ScanWorkers :
                                 LET other == Scan2WorkerEvents(w, numberOfCircles, t)
                                 IN  \A m \in DOMAIN other :
                                         (other[m].op = "write prefixes" /\ other[m].addr = carry) =>
                                             /\ w = SCAN_BLOCK_DIM - 1
                                             /\ other[m].iter = j - 1
                                             /\ BarriersBefore(other, m) < BarriersBefore(trace, k)

\* a scan launch with a second chunk is over in a tile whose first chunk has a
\* hit in its last element: the first prefix of the second chunk is the carry
\* element plus that hit
C30_Witness ==
    /\ rPc = "list"
    /\ numberOfCircles > SCAN_BLOCK_DIM
    /\ \E t \in Tiles :
         LET carry == t * numberOfCircles + SCAN_BLOCK_DIM - 1
         IN  /\ hitCircles[carry] = 1
             /\ prefixes[carry] >= 1
             /\ prefixes[carry + 1] = prefixes[carry] + 1

(***************************************************************************)
(* Properties of the indices of exclusive_scan and find_peaks              *)
(***************************************************************************)
\* C31: every element index exclusive_scan has read or written, in the
\* up-sweep, in the zeroing of the root and in the down-sweep, lies in
\* 0..nextPow2(n)-1, for every n >= 0.
C31_ScanIndicesInBuffer == scanOob = {}

\* C32: no thread of a launch whose product index*twod1 is not below L passes
\* the guard i < L with the product computed in an int, for every L up to 2^30.
C32_NoStrayWorker == strayWorkers = {}

\* x is a power of two of the int range
IsPow2(x) == \E k \in 0 .. MaxLog2 : x = Pow2(k)

\* C34: for 1 <= n <= 2^30 nextPow2(n) is the smallest power of two that is
\* >= n, and it is n when n is a power of two.
C34_NextPow2 ==
    launchPc \in {"upsweep", "downsweep", "done"} =>
        /\ IsPow2(launchLength)
        /\ launchLength >= launchN
        /\ launchLength \div 2 < launchN
        /\ IsPow2(launchN) => launchLength = launchN

\* a length just above 2^29 has been rounded up to 2^30
C34_Witness ==
    /\ launchPc = "upsweep"
    /\ launchN = Pow2(MaxLog2 - 1) + 1
    /\ launchLength = 2 * (launchN - 1)
    /\ launchLength = Pow2(MaxLog2)

\* C33: in find_peaks every launched worker of find_peak_kernel and of
\* make_list_kernel reads and writes only elements of the buffers it is given:
\* none reads data[-1] or data[N], writes peaks[i] for i >= N, or scatters
\* through prefixes[i] for i >= len.
C33_WorkersInsideBuffers == peakOob = {}
====
